---- MODULE Spec2Model ----
(***************************************************************************)
(* Fraud App Analyser: the review sentiment pipeline                       *)
(* (modules/sentiment_analyzer.py), its consumers (the single-app          *)
(* analysis and the comparison of fraud_app_analyzer3.py, the PDF report   *)
(* and the e-mail body) as a state machine.                                *)
(*                                                                         *)
(* Numbers.  A polarity is an integer number of hundredths (-0.8 is -80),  *)
(* and so are the two sentiment thresholds (the sliders move in steps of   *)
(* 0.05).  Percentages, scores and progress fractions are Python floats    *)
(* in the code; here they are exact rationals [n, d] in lowest terms, so   *)
(* an equality stated below is an equality up to the rounding of the       *)
(* floats.  A division by zero yields the value with d = 0, which every    *)
(* operation propagates and the callers report as ZeroDivisionError.       *)
(*                                                                         *)
(* Text.  A review text is a sequence of characters together with the      *)
(* polarity the TextBlob library assigns to it (an external library: its   *)
(* score is an input of the model, a function of the text).                *)
(***************************************************************************)
EXTENDS Integers, Sequences, FiniteSets, TLC

(* ------------------------------------------------------------------ *)
(* Bounds of the model                                                 *)
(* ------------------------------------------------------------------ *)
\* longest review text of the text specification
MaxLen == 3
\* most reviews in a fetched collection of the analysis specification
MaxReviews == 2
\* most reviews in a classified collection of the metrics specification
MaxClassified == 10
\* most reviews fetched for one app of the comparison specification
MaxCmpReviews == 2
\* most calls of the fetch functions that reach the directory service
MaxFetches == 2
\* most directory calls followed in a fetch that does not stop by itself
MaxPagingCalls == 5

(* ------------------------------------------------------------------ *)
(* Exact rationals                                                     *)
(* ------------------------------------------------------------------ *)
Abs(x) == IF x < 0 THEN -x ELSE x

RECURSIVE Gcd(_, _)
Gcd(a, b) == IF b = 0 THEN a ELSE Gcd(b, a % b)

\* the rational n/d in lowest terms with a positive denominator; d = 0 is
\* the result of a division by zero
Rat(n, d) ==
    IF d = 0 THEN [n |-> 0, d |-> 0]
    ELSE LET g == Gcd(Abs(n), Abs(d))
             s == IF d < 0 THEN -1 ELSE 1
         IN  [n |-> (s * n) \div g, d |-> (s * d) \div g]

FromInt(i) == [n |-> i, d |-> 1]
IsErr(a) == a.d = 0
RAdd(a, b) == IF IsErr(a) \/ IsErr(b) THEN Rat(0, 0) ELSE Rat(a.n * b.d + b.n * a.d, a.d * b.d)
RMul(a, b) == IF IsErr(a) \/ IsErr(b) THEN Rat(0, 0) ELSE Rat(a.n * b.n, a.d * b.d)
RDiv(a, b) == IF IsErr(a) \/ IsErr(b) THEN Rat(0, 0) ELSE Rat(a.n * b.d, a.d * b.n)
RLt(a, b) == a.n * b.d < b.n * a.d
RLe(a, b) == a.n * b.d <= b.n * a.d
RGt(a, b) == RLt(b, a)
RGe(a, b) == RLe(b, a)
RMin(a, b) == IF RLt(b, a) THEN b ELSE a
RMax(a, b) == IF RGt(b, a) THEN b ELSE a

(* ------------------------------------------------------------------ *)
(* Text: characters, str.lower() and the substring test                *)
(* ------------------------------------------------------------------ *)
UpperCase == <<"A","B","C","D","E","F","G","H","I","J","K","L","M",
               "N","O","P","Q","R","S","T","U","V","W","X","Y","Z">>
LowerCase == <<"a","b","c","d","e","f","g","h","i","j","k","l","m",
               "n","o","p","q","r","s","t","u","v","w","x","y","z">>

\* the lower-case letter of each capital
ToLower ==
    [c \in {UpperCase[i] : i \in 1..Len(UpperCase)} |->
        LowerCase[CHOOSE i \in 1..Len(UpperCase) : UpperCase[i] = c]]

LowerChar(c) == IF c \in DOMAIN ToLower THEN ToLower[c] ELSE c

\* text.lower()
Lower(chars) == [i \in 1..Len(chars) |-> LowerChar(chars[i])]

\* keyword in lower_text
Contains(chars, kw) ==
    \E i \in 0..(Len(chars) - Len(kw)) : SubSeq(chars, i + 1, i + Len(kw)) = kw

NEGATIVE_KEYWORDS ==
    <<
      <<"s","c","a","m">>,
      <<"s","c","u","m">>,
      <<"u","s","e","l","e","s","s">>,
      <<"f","r","a","u","d">>,
      <<"f","a","k","e">>,
      <<"d","e","c","e","p","t","i","v","e">>,
      <<"r","i","p","o","f","f">>,
      <<"u","n","r","e","s","p","o","n","s","i","v","e">>,
      <<"b","r","o","k","e","n">>,
      <<"g","l","i","t","c","h">>,
      <<"b","u","g","g","y">>,
      <<"c","r","a","s","h">>,
      <<"m","a","l","w","a","r","e">>,
      <<"p","h","i","s","h","i","n","g">>,
      <<"s","t","e","a","l">>,
      <<"s","t","o","l","e","n">>,
      <<"l","i","e">>,
      <<"l","y","i","n","g">>,
      <<"c","h","e","a","t">>,
      <<"c","h","e","a","t","i","n","g">>,
      <<"m","i","s","l","e","a","d","i","n","g">>,
      <<"u","n","r","e","l","i","a","b","l","e">>,
      <<"w","a","s","t","e"," ","o","f"," ","t","i","m","e">>,
      <<"t","e","r","r","i","b","l","e">>,
      <<"h","o","r","r","i","b","l","e">>,
      <<"w","o","r","s","t">>,
      <<"b","a","d"," ","e","x","p","e","r","i","e","n","c","e">>,
      <<"d","o"," ","n","o","t"," ","i","n","s","t","a","l","l">>,
      <<"u","n","i","n","s","t","a","l","l">>,
      <<"d","e","l","e","t","e">>,
      <<"w","a","r","n","i","n","g">>,
      <<"b","e","w","a","r","e">>,
      <<"d","e","c","e","i","t","f","u","l">>,
      <<"u","n","t","r","u","s","t","w","o","r","t","h","y">>
    >>

(* ------------------------------------------------------------------ *)
(* Values                                                              *)
(* ------------------------------------------------------------------ *)
\* a review text: kind "str" is a Python str of the characters chars, which
\* TextBlob scores blob hundredths; kind "float" is a missing text (NaN)
Text(chars, blob) == [kind |-> "str", chars |-> chars, blob |-> blob]
NaN == [kind |-> "float", chars |-> <<>>, blob |-> 0]
\* the value of a cell whose column the collection does not have
NoText == [kind |-> "absent", chars |-> <<>>, blob |-> 0]
NoTime == [date |-> -1, slot |-> -1]
NoAt == -1
NoPolarity == 0
NoSentiment == ""

Labels == {"Positive", "Neutral", "Negative"}

\* a pandas DataFrame: the set of its columns and the sequence of its rows
DataFrame(cols, rows) == [cols |-> cols, rows |-> rows]
Row(content, at) ==
    [content |-> content, at |-> at, polarity |-> NoPolarity,
     sentiment |-> NoSentiment, datetime |-> NoTime]

\* pd.DataFrame(raw_reviews): the columns are the keys of the fetched records
\* (a list of no records has no columns)
FrameOf(raw) == DataFrame(IF raw.rows = <<>> THEN {} ELSE raw.cols, raw.rows)

(* ------------------------------------------------------------------ *)
(* modules/sentiment_analyzer.py                                       *)
(* ------------------------------------------------------------------ *)
\* TextBlob(text).sentiment.polarity, in hundredths
TextBlobPolarity(text) == text.blob

\* analyze_sentiment taking a value that is not a string for a complaint
analyze_sentiment_missing_as_negative(text) ==
    IF text.kind # "str"
    THEN [polarity |-> -100, textblob |-> FALSE]
    ELSE IF \E k \in 1..Len(NEGATIVE_KEYWORDS) :
                Contains(Lower(text.chars), NEGATIVE_KEYWORDS[k])
         THEN [polarity |-> -80, textblob |-> FALSE]
         ELSE [polarity |-> TextBlobPolarity(text), textblob |-> TRUE]

\* analyze_sentiment looking for the keywords in the text as written
analyze_sentiment_case_sensitive(text) ==
    IF text.kind # "str"
    THEN [polarity |-> 0, textblob |-> FALSE]
    ELSE IF \E k \in 1..Len(NEGATIVE_KEYWORDS) : Contains(text.chars, NEGATIVE_KEYWORDS[k])
         THEN [polarity |-> -80, textblob |-> FALSE]
         ELSE [polarity |-> TextBlobPolarity(text), textblob |-> TRUE]

\* the polarity of a text, and whether TextBlob was consulted for it
analyze_sentiment(text) ==
    IF text.kind # "str"
    THEN [polarity |-> 0, textblob |-> FALSE]
    ELSE LET lower_text == Lower(text.chars)
         IN  IF \E k \in 1..Len(NEGATIVE_KEYWORDS) : Contains(lower_text, NEGATIVE_KEYWORDS[k])
             THEN [polarity |-> -80, textblob |-> FALSE]
             ELSE [polarity |-> TextBlobPolarity(text), textblob |-> TRUE]

analyze_sentiment_batch(texts) == [i \in 1..Len(texts) |-> analyze_sentiment(texts[i])]

\* classify with the comparisons not strict
classify_inclusive(p, pos_thr, neg_thr) ==
    IF p >= pos_thr THEN "Positive"
    ELSE IF p <= neg_thr THEN "Negative"
    ELSE "Neutral"

\* classify with the Negative test applied first
classify_negative_first(p, pos_thr, neg_thr) ==
    IF p < neg_thr THEN "Negative"
    ELSE IF p > pos_thr THEN "Positive"
    ELSE "Neutral"

\* the lambda of process_reviews: the label of polarity p
classify(p, pos_thr, neg_thr) ==
    IF p > pos_thr THEN "Positive"
    ELSE IF p < neg_thr THEN "Negative"
    ELSE "Neutral"

\* pd.to_datetime(at): the instant at (half-day slots) as a date and a slot
to_datetime(at) == [date |-> at \div 2, slot |-> at % 2]

batch_size == 100

Min(a, b) == IF a < b THEN a ELSE b

\* the for loop putting the results of a batch before those of the earlier ones
RECURSIVE BatchLoopPrepending(_, _, _, _)
BatchLoopPrepending(contents, i, has_bar, acc) ==
    LET total_reviews == Len(contents)
    IN  IF i >= total_reviews THEN acc
        ELSE LET batch == SubSeq(contents, i + 1, Min(i + batch_size, total_reviews))
                 progress == RAdd(Rat(1, 5),
                                  RMul(RDiv(FromInt(i + batch_size), FromInt(total_reviews)),
                                       Rat(3, 5)))
             IN  BatchLoopPrepending(contents, i + batch_size, has_bar,
                           [results |-> analyze_sentiment_batch(batch) \o acc.results,
                            progress |-> IF has_bar
                                         THEN Append(acc.progress, RMin(progress, Rat(4, 5)))
                                         ELSE acc.progress])

\* the for loop of process_reviews from index i on; acc holds the results
\* of the batches done (one entry per text) and the progress values emitted
RECURSIVE BatchLoop(_, _, _, _)
BatchLoop(contents, i, has_bar, acc) ==
    LET total_reviews == Len(contents)
    IN  IF i >= total_reviews THEN acc
        ELSE LET batch == SubSeq(contents, i + 1, Min(i + batch_size, total_reviews))
                 progress == RAdd(Rat(1, 5),
                                  RMul(RDiv(FromInt(i + batch_size), FromInt(total_reviews)),
                                       Rat(3, 5)))
             IN  BatchLoop(contents, i + batch_size, has_bar,
                           [results |-> acc.results \o analyze_sentiment_batch(batch),
                            progress |-> IF has_bar
                                         THEN Append(acc.progress, RMin(progress, Rat(4, 5)))
                                         ELSE acc.progress])

\* process_reviews adding the new polarity to the one the row holds
process_reviews_accumulating(df, pos_threshold, neg_threshold, has_bar) ==
    IF "content" \notin df.cols \/ "at" \notin df.cols
    THEN [raised |-> "ValueError", df |-> df, progress |-> <<>>, scored |-> {}]
    ELSE LET contents == [i \in 1..Len(df.rows) |-> df.rows[i].content]
             done == BatchLoop(contents, 0, has_bar, [results |-> <<>>, progress |-> <<>>])
             polarities == [i \in 1..Len(done.results) |->
                               done.results[i].polarity + df.rows[i].polarity]
         IN  [raised |-> "",
              df |-> DataFrame(df.cols \cup {"polarity", "sentiment", "datetime"},
                        [i \in 1..Len(df.rows) |->
                            [df.rows[i] EXCEPT
                               !.polarity = polarities[i],
                               !.sentiment = classify(polarities[i], pos_threshold, neg_threshold),
                               !.datetime = to_datetime(df.rows[i].at)]]),
              progress |-> done.progress,
              scored |-> {contents[i] : i \in {j \in 1..Len(contents) : done.results[j].textblob}}]

\* process_reviews that validates the text column only
process_reviews_content_only(df, pos_threshold, neg_threshold, has_bar) ==
    IF "content" \notin df.cols
    THEN [raised |-> "ValueError", df |-> df, progress |-> <<>>, scored |-> {}]
    ELSE LET contents == [i \in 1..Len(df.rows) |-> df.rows[i].content]
             done == BatchLoop(contents, 0, has_bar, [results |-> <<>>, progress |-> <<>>])
             polarities == [i \in 1..Len(done.results) |-> done.results[i].polarity]
         IN  [raised |-> "",
              df |-> DataFrame(df.cols \cup {"polarity", "sentiment", "datetime"},
                        [i \in 1..Len(df.rows) |->
                            [df.rows[i] EXCEPT
                               !.polarity = polarities[i],
                               !.sentiment = classify(polarities[i], pos_threshold, neg_threshold),
                               !.datetime = to_datetime(df.rows[i].at)]]),
              progress |-> done.progress,
              scored |-> {contents[i] : i \in {j \in 1..Len(contents) : done.results[j].textblob}}]

\* process_reviews(df, pos_threshold, neg_threshold, progress_bar): what it
\* raised ("" when it returned), the collection as it leaves it, the progress
\* values it emitted and the texts it handed to TextBlob
process_reviews(df, pos_threshold, neg_threshold, has_bar) ==
    IF "content" \notin df.cols \/ "at" \notin df.cols
    THEN [raised |-> "ValueError", df |-> df, progress |-> <<>>, scored |-> {}]
    ELSE LET contents == [i \in 1..Len(df.rows) |-> df.rows[i].content]
             done == BatchLoop(contents, 0, has_bar, [results |-> <<>>, progress |-> <<>>])
             polarities == [i \in 1..Len(done.results) |-> done.results[i].polarity]
         IN  [raised |-> "",
              df |-> DataFrame(df.cols \cup {"polarity", "sentiment", "datetime"},
                        [i \in 1..Len(df.rows) |->
                            [df.rows[i] EXCEPT
                               !.polarity = polarities[i],
                               !.sentiment = classify(polarities[i], pos_threshold, neg_threshold),
                               !.datetime = to_datetime(df.rows[i].at)]]),
              progress |-> done.progress,
              scored |-> {contents[i] : i \in {j \in 1..Len(contents) : done.results[j].textblob}}]

\* value_counts counting the distinct rows of each label
value_counts_unique(rows) ==
    [l \in {rows[i].sentiment : i \in 1..Len(rows)} |->
        Cardinality({rows[i] : i \in {j \in 1..Len(rows) : rows[j].sentiment = l}})]

\* filtered_df['sentiment'].value_counts(): the labels that occur, each with
\* the number of its rows
value_counts(rows) ==
    [l \in {rows[i].sentiment : i \in 1..Len(rows)} |->
        Cardinality({i \in 1..Len(rows) : rows[i].sentiment = l})]

\* sentiment_counts.get(key, default)
Get(counts, key, default) == IF key \in DOMAIN counts THEN counts[key] ELSE default

\* app_details: None, or the dict of the directory service, of which the model
\* keeps the app id and the score (a rational, None, or no such key)
NoDetails == [isNone |-> TRUE, appId |-> "", score |-> [kind |-> "missing", val |-> FromInt(0)]]
Details(id, score) == [isNone |-> FALSE, appId |-> id, score |-> score]
ScoreMissing == [kind |-> "missing", val |-> FromInt(0)]
ScoreNone == [kind |-> "None", val |-> FromInt(0)]
Score(r) == [kind |-> "num", val |-> r]

\* app_details.get('score', default): a number, or None
DetailsGetScore(app_details, default) ==
    IF app_details.score.kind = "missing" THEN Score(default) ELSE app_details.score

\* app_details.get('score'): a number, or None
DetailsGetScoreOrNone(app_details) ==
    IF app_details.score.kind = "missing" THEN ScoreNone ELSE app_details.score

\* playstore_score on a scale of 50
playstore_score_tenfold(app_details) ==
    IF ~app_details.isNone /\ DetailsGetScoreOrNone(app_details).kind = "num"
    THEN RMul(DetailsGetScore(app_details, FromInt(0)).val, FromInt(10))
    ELSE FromInt(0)

\* playstore_score of calculate_sentiment_metrics
playstore_score_of(app_details) ==
    IF ~app_details.isNone /\ DetailsGetScoreOrNone(app_details).kind # "None"
    THEN RMul(DetailsGetScore(app_details, FromInt(0)).val, FromInt(20))
    ELSE FromInt(0)

\* the percentage with an integer division
pct_of_floordiv(sentiment_counts, label, total_reviews) ==
    IF total_reviews > 0
    THEN FromInt((Get(sentiment_counts, label, 0) \div total_reviews) * 100)
    ELSE FromInt(0)

\* the percentage without the test for an empty collection
pct_of_unguarded(sentiment_counts, label, total_reviews) ==
    RMul(RDiv(FromInt(Get(sentiment_counts, label, 0)), FromInt(total_reviews)), FromInt(100))

\* one of the three percentages of calculate_sentiment_metrics
pct_of(sentiment_counts, label, total_reviews) ==
    IF total_reviews > 0
    THEN RMul(RDiv(FromInt(Get(sentiment_counts, label, 0)), FromInt(total_reviews)), FromInt(100))
    ELSE FromInt(0)

\* the rating score with the neutral reviews credited in full
app_rating_score_full_credit(sentiment_counts, positive_pct, negative_pct, neutral_pct) ==
    LET total_sentiment_reviews ==
            Get(sentiment_counts, "Positive", 0) + Get(sentiment_counts, "Negative", 0)
              + Get(sentiment_counts, "Neutral", 0)
    IN  IF total_sentiment_reviews > 0
        THEN RMin(FromInt(100), RAdd(positive_pct, neutral_pct))
        ELSE FromInt(0)

\* the rating score with half of the neutral reviews credited
app_rating_score_neutral_half(sentiment_counts, positive_pct, negative_pct, neutral_pct) ==
    LET total_sentiment_reviews ==
            Get(sentiment_counts, "Positive", 0) + Get(sentiment_counts, "Negative", 0)
              + Get(sentiment_counts, "Neutral", 0)
    IN  IF total_sentiment_reviews > 0
        THEN RMin(FromInt(100), RAdd(positive_pct, RDiv(neutral_pct, FromInt(2))))
        ELSE FromInt(0)

\* app_rating_score of calculate_sentiment_metrics
app_rating_score_of(sentiment_counts, positive_pct, negative_pct, neutral_pct) ==
    LET total_sentiment_reviews ==
            Get(sentiment_counts, "Positive", 0) + Get(sentiment_counts, "Negative", 0)
              + Get(sentiment_counts, "Neutral", 0)
    IN  IF total_sentiment_reviews > 0
        THEN LET pos_score_calc ==
                     RAdd(positive_pct,
                          IF RGt(RAdd(positive_pct, negative_pct), FromInt(0))
                          THEN RMul(neutral_pct, RDiv(positive_pct, RAdd(positive_pct, negative_pct)))
                          ELSE FromInt(0))
             IN  RMin(FromInt(100), pos_score_calc)
        ELSE FromInt(0)

\* calculate_sentiment_metrics letting the store rating into the rating score
calculate_sentiment_metrics_blended(filtered_df, app_details) ==
    LET sentiment_counts == value_counts(filtered_df.rows)
        total_reviews == Len(filtered_df.rows)
        positive_pct == pct_of(sentiment_counts, "Positive", total_reviews)
        negative_pct == pct_of(sentiment_counts, "Negative", total_reviews)
        neutral_pct == pct_of(sentiment_counts, "Neutral", total_reviews)
        playstore_score == playstore_score_of(app_details)
        app_rating_score ==
            RMul(RAdd(app_rating_score_of(sentiment_counts, positive_pct, negative_pct,
                                          neutral_pct),
                      playstore_score),
                 Rat(1, 2))
    IN  [raised |-> "",
         counts |-> sentiment_counts, total |-> total_reviews,
         positive_pct |-> positive_pct, negative_pct |-> negative_pct,
         neutral_pct |-> neutral_pct,
         app_rating_score |-> app_rating_score, playstore_score |-> playstore_score]

\* calculate_sentiment_metrics(filtered_df, app_details)
calculate_sentiment_metrics(filtered_df, app_details) ==
    IF "sentiment" \notin filtered_df.cols
    THEN [raised |-> "KeyError", counts |-> <<>>, total |-> 0,
          positive_pct |-> FromInt(0), negative_pct |-> FromInt(0), neutral_pct |-> FromInt(0),
          app_rating_score |-> FromInt(0), playstore_score |-> FromInt(0)]
    ELSE LET sentiment_counts == value_counts(filtered_df.rows)
             total_reviews == Len(filtered_df.rows)
             positive_pct == pct_of(sentiment_counts, "Positive", total_reviews)
             negative_pct == pct_of(sentiment_counts, "Negative", total_reviews)
             neutral_pct == pct_of(sentiment_counts, "Neutral", total_reviews)
             playstore_score == playstore_score_of(app_details)
             app_rating_score ==
                 app_rating_score_of(sentiment_counts, positive_pct, negative_pct, neutral_pct)
         IN  [raised |-> IF \E x \in {positive_pct, negative_pct, neutral_pct,
                                        app_rating_score, playstore_score} : IsErr(x)
                         THEN "ZeroDivisionError" ELSE "",
              counts |-> sentiment_counts, total |-> total_reviews,
              positive_pct |-> positive_pct, negative_pct |-> negative_pct,
              neutral_pct |-> neutral_pct,
              app_rating_score |-> app_rating_score, playstore_score |-> playstore_score]

\* get_score_color with the favourable tier starting above 75
get_score_color_above(score, scale) ==
    LET score_pct == IF scale # FromInt(0)
                     THEN RMul(RDiv(score, scale), FromInt(100))
                     ELSE FromInt(0)
    IN  IF RGt(score_pct, FromInt(75)) THEN "#27ae60"
        ELSE IF RGe(score_pct, FromInt(40)) THEN "#f39c12"
        ELSE "#e74c3c"

\* get_score_color(score, scale)
get_score_color(score, scale) ==
    LET score_pct == IF scale # FromInt(0)
                     THEN RMul(RDiv(score, scale), FromInt(100))
                     ELSE FromInt(0)
    IN  IF RGe(score_pct, FromInt(75)) THEN "#27ae60"
        ELSE IF RGe(score_pct, FromInt(40)) THEN "#f39c12"
        ELSE "#e74c3c"

(* ------------------------------------------------------------------ *)
(* The consumers of the metrics                                        *)
(* ------------------------------------------------------------------ *)
\* fraud_app_analyzer3.py: the alert under the summary of findings
UiRiskAlert(negative_pct, fraud_threshold) ==
    IF RGt(negative_pct, FromInt(fraud_threshold)) THEN "risk" ELSE "no_risk"

\* circular_display(label, value): the colour of the circle
circular_display(label, value) ==
    IF label \in {"App Rating", "PlayStore Score"}
    THEN get_score_color(value, FromInt(100))
    ELSE CASE label = "Positive" -> "#27ae60"
           [] label = "Neutral" -> "#f39c12"
           [] label = "Negative" -> "#e74c3c"
           [] OTHER -> "#3498db"

\* the risk alert with a comparison that is not strict
PdfRiskAlertInclusive(negative_pct, fraud_threshold) ==
    IF RGe(negative_pct, FromInt(fraud_threshold)) THEN "risk" ELSE "no_risk"

\* generate_single_app_pdf_report: the risk alert paragraph
PdfRiskAlert(negative_pct, fraud_threshold) ==
    IF RGt(negative_pct, FromInt(fraud_threshold)) THEN "risk" ELSE "no_risk"

\* send_analysis_email: the risk alert of the body
EmailRiskAlert(negative_pct, fraud_threshold) ==
    IF RGt(negative_pct, FromInt(fraud_threshold)) THEN "risk" ELSE "no_risk"

\* generate_single_app_pdf_report: what it raised ("" when the report was
\* built), the alert paragraph and the colours of the two score rows
generate_single_app_pdf_report(app_details, m, fraud_threshold) ==
    IF app_details.isNone
    THEN [raised |-> "AttributeError", alert |-> "", colors |-> <<>>]
    ELSE IF DetailsGetScore(app_details, FromInt(0)).kind = "None"
    THEN [raised |-> "TypeError", alert |-> "", colors |-> <<>>]
    ELSE [raised |-> "",
          alert |-> PdfRiskAlert(m.negative_pct, fraud_threshold),
          colors |-> <<get_score_color(m.app_rating_score, FromInt(100)),
                       get_score_color(m.playstore_score, FromInt(100))>>]

\* send_analysis_email: the risk paragraph of the body
send_analysis_email(app_details, m, fraud_threshold) ==
    [title |-> IF ~app_details.isNone THEN app_details.appId ELSE "Unknown App",
     alert |-> EmailRiskAlert(m.negative_pct, fraud_threshold)]

(* ------------------------------------------------------------------ *)
(* The directory service (modules/data_fetcher.py)                     *)
(* ------------------------------------------------------------------ *)
\* continuation_token = None
NoToken == 0

\* what the directory service does with a request for a page of count
\* reviews: it returns count reviews and a token, count reviews and no token,
\* fewer reviews than asked for, no review at all, or it fails; it never
\* returns more than count reviews
PageReplies == {"full", "last", "short", "none", "error"}

\* the reviews of page k of the service, for a request of count reviews
PageOf(reply, k, count) ==
    LET n == CASE reply \in {"full", "last"} -> count
               [] reply = "short" -> count - 1
               [] OTHER -> 0
    IN  [j \in 1..n |-> [page |-> k, pos |-> j]]

\* the token that comes with page k
TokenOf(reply, k) == IF reply \in {"full", "short"} THEN k ELSE NoToken

\* the while loop of fetch_reviews asking for 200 reviews at every call
RECURSIVE FetchLoopFixedCount(_, _, _, _, _)
FetchLoopFixedCount(max_reviews, all_reviews, continuation_token, trace, script) ==
    IF ~(Len(all_reviews) < max_reviews) THEN [trace EXCEPT !.all_reviews = all_reviews]
    ELSE LET count_to_fetch == 200
             k == Len(trace.calls) + 1
             called == [trace EXCEPT
                          !.calls = Append(@, [count |-> count_to_fetch,
                                               continuation_token |-> continuation_token])]
         IN  IF script[k] = "error"
             THEN [called EXCEPT !.raised = TRUE, !.all_reviews = all_reviews]
             ELSE LET result == PageOf(script[k], k, count_to_fetch)
                      new_token == TokenOf(script[k], k)
                      got == [called EXCEPT !.pages = Append(@, result),
                                            !.tokens = Append(@, new_token)]
                  IN  IF new_token = NoToken \/ Len(result) < count_to_fetch
                      THEN [got EXCEPT !.all_reviews = all_reviews \o result]
                      ELSE FetchLoopFixedCount(max_reviews, all_reviews \o result, new_token,
                                               got, script)

\* the while loop of fetch_reviews; trace holds the calls made, the pages and
\* the tokens received; script is what the service does call by call
RECURSIVE FetchLoop(_, _, _, _, _)
FetchLoop(max_reviews, all_reviews, continuation_token, trace, script) ==
    IF ~(Len(all_reviews) < max_reviews) THEN [trace EXCEPT !.all_reviews = all_reviews]
    ELSE LET count_to_fetch == Min(200, max_reviews - Len(all_reviews))
         IN  IF count_to_fetch <= 0 THEN [trace EXCEPT !.all_reviews = all_reviews]
             ELSE
             LET k == Len(trace.calls) + 1
                 called == [trace EXCEPT
                              !.calls = Append(@, [count |-> count_to_fetch,
                                                   continuation_token |-> continuation_token])]
             IN  IF script[k] = "error"
                 THEN [called EXCEPT !.raised = TRUE, !.all_reviews = all_reviews]
                 ELSE LET result == PageOf(script[k], k, count_to_fetch)
                          new_token == TokenOf(script[k], k)
                          got == [called EXCEPT !.pages = Append(@, result),
                                                !.tokens = Append(@, new_token)]
                      IN  IF new_token = NoToken \/ Len(result) < count_to_fetch
                          THEN [got EXCEPT !.all_reviews = all_reviews \o result]
                          ELSE FetchLoop(max_reviews, all_reviews \o result, new_token,
                                         got, script)

NoTrace ==
    [calls |-> <<>>, pages |-> <<>>, tokens |-> <<>>, raised |-> FALSE, all_reviews |-> <<>>]

\* fetch_reviews handing back what it had collected when a call fails
fetch_reviews_partial(app_id, max_reviews, script) ==
    LET t == FetchLoop(max_reviews, <<>>, NoToken, NoTrace, script)
    IN  [reviews |-> SubSeq(t.all_reviews, 1, Min(Len(t.all_reviews), max_reviews)),
         error |-> t.raised, calls |-> t.calls, pages |-> t.pages, tokens |-> t.tokens]

\* the body of fetch_reviews(app_id, country, max_reviews): the list it
\* returns, whether it showed an error, and the calls it made
fetch_reviews(app_id, max_reviews, script) ==
    LET t == FetchLoop(max_reviews, <<>>, NoToken, NoTrace, script)
    IN  [reviews |-> IF t.raised THEN <<>>
                     ELSE SubSeq(t.all_reviews, 1, Min(Len(t.all_reviews), max_reviews)),
         error |-> t.raised, calls |-> t.calls, pages |-> t.pages, tokens |-> t.tokens]

\* the body of fetch_app_details(app_id, country): the details the service
\* gave, or None and an error message when it failed
fetch_app_details(app_id, reply) ==
    IF reply.fails
    THEN [details |-> NoDetails, error |-> TRUE]
    ELSE [details |-> reply.details, error |-> FALSE]

(* ------------------------------------------------------------------ *)
(* State                                                               *)
(* ------------------------------------------------------------------ *)
VARIABLES
    pc,               \* where the run of the script stands
    selected_app,     \* st.session_state.selected_app
    pos_threshold,    \* the three sliders, as the run read them
    neg_threshold,
    fraud_threshold,
    app_details,      \* fetch_app_details(app_id, country) of the run
    df,               \* the review collection of the run
    filtered_df,      \* the filtered view
    progress,         \* the values sent to the progress bar, in order
    scored,           \* the texts handed to TextBlob
    metrics,          \* the result of calculate_sentiment_metrics
    ui,               \* the messages of the analysis section
    pdf,              \* the result of generate_single_app_pdf_report
    email,            \* the body of the e-mail sent
    raised,           \* the exception that ended the run ("" when none)
    app1_id,          \* st.session_state: the two comparison slots
    app2_id,
    app1_details,
    app2_details,
    app1_metrics,     \* get_sentiment_metrics_for_comparison of each slot
    app2_metrics,
    cmp_reviews,      \* what fetch_reviews returned for the two slots
    cmp_frames,       \* df_app of the two calls
    cmp_ui,           \* what the comparison section rendered
    fetch,            \* the last call of fetch_reviews or fetch_app_details
    reviews_cache,    \* st.cache_data of fetch_reviews
    details_cache     \* st.cache_data of fetch_app_details

cmpVars == <<app1_id, app2_id, app1_details, app2_details, app1_metrics, app2_metrics,
             cmp_reviews, cmp_frames, cmp_ui>>
fetchVars == <<fetch, reviews_cache, details_cache>>
runVars == <<selected_app, app_details, df, filtered_df, progress, scored, metrics, ui,
             pdf, email>>

vars == <<pc, selected_app, pos_threshold, neg_threshold, fraud_threshold, app_details,
          df, filtered_df, progress, scored, metrics, ui, pdf, email, raised, app1_id,
          app2_id, app1_details, app2_details, app1_metrics, app2_metrics, cmp_reviews,
          cmp_frames, cmp_ui, fetch, reviews_cache, details_cache>>

None == "None"
AppIds == {"com.a", "com.b"}

NoFrame == DataFrame({}, <<>>)
NoReviews == [cols |-> {}, rows |-> <<>>]
NoMetrics ==
    [raised |-> "", counts |-> [l \in {} |-> 0], total |-> 0,
     positive_pct |-> FromInt(0), negative_pct |-> FromInt(0), neutral_pct |-> FromInt(0),
     app_rating_score |-> FromInt(0), playstore_score |-> FromInt(0)]
NoUi == [error |-> "", warning |-> "", alert |-> "", circles |-> <<>>]
NoPdf == [raised |-> "", alert |-> "", colors |-> <<>>]
NoEmail == [title |-> "", alert |-> ""]
NoCmpMetrics ==
    [raised |-> "", total |-> -1, positive_pct |-> FromInt(0), negative_pct |-> FromInt(0),
     neutral_pct |-> FromInt(0), app_rating_score |-> FromInt(0)]
NoCmpUi == [cards |-> <<>>, warning |-> "", bars |-> <<>>, pdf |-> FALSE]

\* no call of the fetch functions yet, and nothing cached
NoFetch ==
    [fn |-> "", args |-> <<>>, hit |-> FALSE, calls |-> <<>>, pages |-> <<>>,
     tokens |-> <<>>, error |-> FALSE, reviews |-> <<>>, details |-> NoDetails]
NoCache == [key \in {} |-> <<>>]
FetchInit ==
    /\ fetch = NoFetch
    /\ reviews_cache = NoCache
    /\ details_cache = NoCache

\* the comparison slots and outputs of a fresh session
CmpInit ==
    /\ app1_id = None
    /\ app2_id = None
    /\ app1_details = NoDetails
    /\ app2_details = NoDetails
    /\ app1_metrics = NoCmpMetrics
    /\ app2_metrics = NoCmpMetrics
    /\ cmp_reviews = <<NoReviews, NoReviews>>
    /\ cmp_frames = <<NoFrame, NoFrame>>
    /\ cmp_ui = NoCmpUi

(* ------------------------------------------------------------------ *)
(* Inputs                                                              *)
(* ------------------------------------------------------------------ *)
\* the sequences over S of length at most n
SeqUpTo(S, n) == UNION {[1..k -> S] : k \in 0..n}

\* review texts of the analysis specification: a missing text, a text with a
\* keyword in capitals that TextBlob would score 0.5, and texts without a
\* keyword that TextBlob scores -0.1, 0.1 and 1.0
ScamText == Text(<<"S","C","A","M">>, 50)
OkText(blob) == Text(<<"o","k">>, blob)
ContentSamples == {NaN, ScamText, OkText(-10), OkText(10), OkText(100)}
\* review instants: two on different days
AtSamples == {0, 3}

\* what fetch_reviews returns: records with the keys cols (the directory
\* service gives both; a collection without one of them is malformed)
RawCollections ==
    {[cols |-> {"content", "at"}, rows |-> r] :
        r \in SeqUpTo({Row(c, a) : c \in ContentSamples, a \in AtSamples}, MaxReviews)}
    \cup {[cols |-> {"content"}, rows |-> r] :
        r \in SeqUpTo({Row(c, NoAt) : c \in ContentSamples}, MaxReviews)}
    \cup {[cols |-> {"at"}, rows |-> r] :
        r \in SeqUpTo({Row(NoText, a) : a \in AtSamples}, MaxReviews)}

\* what fetch_app_details returns for app id: None, or details whose score
\* is None (an app nobody rated), or a rating
DetailsSamples(id) ==
    {NoDetails, Details(id, ScoreNone), Details(id, Score(Rat(45, 10)))}

\* slider positions read by the analysis specification
PosSamples == {10}
NegSamples == {-10, -80}
FraudSamples == {30, 50}

\* the filter widgets: the labels selected and the date range (one or two dates)
FilterSamples ==
    {[sentiments |-> Labels, dates |-> <<0, 1>>],
     [sentiments |-> {"Negative"}, dates |-> <<0, 1>>],
     [sentiments |-> {"Positive", "Neutral"}, dates |-> <<1>>],
     [sentiments |-> Labels, dates |-> <<0, 0>>]}

(* ------------------------------------------------------------------ *)
(* The single-app analysis (fraud_app_analyzer3.py)                    *)
(* ------------------------------------------------------------------ *)
Init ==
    /\ pc = "idle"
    /\ selected_app = None
    /\ pos_threshold = 10
    /\ neg_threshold = -10
    /\ fraud_threshold = 30
    /\ app_details = NoDetails
    /\ df = NoFrame
    /\ filtered_df = NoFrame
    /\ progress = <<>>
    /\ scored = {}
    /\ metrics = NoMetrics
    /\ ui = NoUi
    /\ pdf = NoPdf
    /\ email = NoEmail
    /\ raised = ""
    /\ CmpInit
    /\ FetchInit

\* the Analyze button of a search result: the app is selected and the script
\* runs again
ClickAnalyze ==
    /\ \E app_id \in AppIds : selected_app' = app_id
    /\ pc' = "selected"
    /\ app_details' = NoDetails
    /\ df' = NoFrame
    /\ filtered_df' = NoFrame
    /\ progress' = <<>>
    /\ scored' = {}
    /\ metrics' = NoMetrics
    /\ ui' = NoUi
    /\ pdf' = NoPdf
    /\ email' = NoEmail
    /\ raised' = ""
    /\ UNCHANGED <<pos_threshold, neg_threshold, fraud_threshold>>
    /\ UNCHANGED cmpVars
    /\ UNCHANGED fetchVars

\* the analysis section up to process_reviews
Analyze ==
    /\ pc = "selected"
    /\ selected_app # None
    /\ \E details \in DetailsSamples(selected_app), raw_reviews \in RawCollections,
          pos \in PosSamples, neg \in NegSamples :
        LET frame == FrameOf(raw_reviews)
            r == process_reviews(frame, pos, neg, TRUE)
            started == <<FromInt(0), Rat(1, 5)>>
        IN  /\ app_details' = details
            /\ pos_threshold' = pos
            /\ neg_threshold' = neg
            /\ IF raw_reviews.rows = <<>>
               THEN /\ ui' = [ui EXCEPT !.error = "No reviews found"]
                    /\ selected_app' = None
                    /\ pc' = "stopped"
                    /\ progress' = started
                    /\ UNCHANGED <<df, scored, raised>>
               ELSE IF "content" \notin frame.cols
               THEN /\ ui' = [ui EXCEPT !.error = "No valid review content"]
                    /\ selected_app' = None
                    /\ pc' = "stopped"
                    /\ progress' = started
                    /\ df' = frame
                    /\ UNCHANGED <<scored, raised>>
               ELSE IF r.raised # ""
               THEN /\ raised' = r.raised
                    /\ pc' = "crashed"
                    /\ df' = r.df
                    /\ progress' = started \o r.progress
                    /\ scored' = r.scored
                    /\ UNCHANGED <<ui, selected_app>>
               ELSE /\ df' = r.df
                    /\ progress' = (started \o r.progress) \o <<Rat(9, 10)>>
                    /\ scored' = r.scored
                    /\ pc' = "processed"
                    /\ UNCHANGED <<ui, selected_app, raised>>
    /\ UNCHANGED <<fraud_threshold, filtered_df, metrics, pdf, email>>
    /\ UNCHANGED cmpVars
    /\ UNCHANGED fetchVars

\* the rows of df the filter widgets keep
FilterRows(rows, f) ==
    LET keep(i) ==
            /\ rows[i].sentiment \in f.sentiments
            /\ rows[i].datetime.date >= f.dates[1]
            /\ Len(f.dates) = 2 => rows[i].datetime.date <= f.dates[2]
        RECURSIVE Pick(_)
        Pick(i) == IF i > Len(rows) THEN <<>>
                   ELSE IF keep(i) THEN <<rows[i]>> \o Pick(i + 1) ELSE Pick(i + 1)
    IN  Pick(1)

\* the review filter rendering the judgment of an empty view
FilterJudgingEmpty ==
    /\ pc = "processed"
    /\ \E f \in FilterSamples :
        /\ filtered_df' = DataFrame(df.cols, FilterRows(df.rows, f))
        /\ IF filtered_df'.rows = <<>>
           THEN /\ ui' = [ui EXCEPT !.alert = UiRiskAlert(FromInt(0), fraud_threshold)]
                /\ pc' = "stopped"
           ELSE /\ pc' = "filtered"
                /\ UNCHANGED ui
    /\ UNCHANGED <<selected_app, pos_threshold, neg_threshold, fraud_threshold, app_details,
                   df, progress, scored, metrics, pdf, email, raised>>
    /\ UNCHANGED cmpVars
    /\ UNCHANGED fetchVars

\* the review filter
Filter ==
    /\ pc = "processed"
    /\ \E f \in FilterSamples :
        /\ filtered_df' = DataFrame(df.cols, FilterRows(df.rows, f))
        /\ IF filtered_df'.rows = <<>>
           THEN /\ ui' = [ui EXCEPT !.warning = "No reviews match the selected filters"]
                /\ pc' = "stopped"
           ELSE /\ pc' = "filtered"
                /\ UNCHANGED ui
    /\ UNCHANGED <<selected_app, pos_threshold, neg_threshold, fraud_threshold, app_details,
                   df, progress, scored, metrics, pdf, email, raised>>
    /\ UNCHANGED cmpVars
    /\ UNCHANGED fetchVars

\* the review summary computed on the whole processed collection
SummariseUnfiltered ==
    /\ pc = "filtered"
    /\ \E ft \in FraudSamples :
        LET m == calculate_sentiment_metrics(df, app_details)
        IN  /\ fraud_threshold' = ft
            /\ metrics' = m
            /\ IF m.raised # ""
               THEN /\ raised' = m.raised
                    /\ pc' = "crashed"
                    /\ UNCHANGED ui
               ELSE /\ ui' = [ui EXCEPT
                                !.alert = UiRiskAlert(m.negative_pct, ft),
                                !.circles = <<circular_display("Positive", m.positive_pct),
                                              circular_display("Neutral", m.neutral_pct),
                                              circular_display("Negative", m.negative_pct),
                                              circular_display("App Rating", m.app_rating_score),
                                              circular_display("PlayStore Score", m.playstore_score)>>]
                    /\ pc' = "summarised"
                    /\ UNCHANGED raised
    /\ UNCHANGED <<selected_app, pos_threshold, neg_threshold, app_details, df, filtered_df,
                   progress, scored, pdf, email>>
    /\ UNCHANGED cmpVars
    /\ UNCHANGED fetchVars

\* the review summary, the circles and the risk alert
Summarise ==
    /\ pc = "filtered"
    /\ \E ft \in FraudSamples :
        LET m == calculate_sentiment_metrics(filtered_df, app_details)
        IN  /\ fraud_threshold' = ft
            /\ metrics' = m
            /\ IF m.raised # ""
               THEN /\ raised' = m.raised
                    /\ pc' = "crashed"
                    /\ UNCHANGED ui
               ELSE /\ ui' = [ui EXCEPT
                                !.alert = UiRiskAlert(m.negative_pct, ft),
                                !.circles = <<circular_display("Positive", m.positive_pct),
                                              circular_display("Neutral", m.neutral_pct),
                                              circular_display("Negative", m.negative_pct),
                                              circular_display("App Rating", m.app_rating_score),
                                              circular_display("PlayStore Score", m.playstore_score)>>]
                    /\ pc' = "summarised"
                    /\ UNCHANGED raised
    /\ UNCHANGED <<selected_app, pos_threshold, neg_threshold, app_details, df, filtered_df,
                   progress, scored, pdf, email>>
    /\ UNCHANGED cmpVars
    /\ UNCHANGED fetchVars

\* the end of the progress bar and the PDF report
Export ==
    /\ pc = "summarised"
    /\ progress' = Append(progress, FromInt(1))
    /\ pdf' = generate_single_app_pdf_report(app_details, metrics, fraud_threshold)
    /\ IF pdf'.raised # ""
       THEN /\ raised' = pdf'.raised
            /\ pc' = "crashed"
       ELSE /\ pc' = "exported"
            /\ UNCHANGED raised
    /\ UNCHANGED <<selected_app, pos_threshold, neg_threshold, fraud_threshold, app_details,
                   df, filtered_df, scored, metrics, ui, email>>
    /\ UNCHANGED cmpVars
    /\ UNCHANGED fetchVars

\* the Send Email Report button
EmailReport ==
    /\ pc = "exported"
    /\ \E entered \in BOOLEAN :
        IF entered
        THEN email' = send_analysis_email(app_details, metrics, fraud_threshold)
        ELSE email' = email
    /\ pc' = "mailed"
    /\ UNCHANGED <<selected_app, pos_threshold, neg_threshold, fraud_threshold, app_details,
                   df, filtered_df, progress, scored, metrics, ui, pdf, raised>>
    /\ UNCHANGED cmpVars
    /\ UNCHANGED fetchVars

\* the script runs again after a run has ended (any interaction with the
\* page): the session state is kept, the page is drawn anew, and the analysis
\* section is entered only if an app is selected
Rerun ==
    /\ pc \in {"stopped", "crashed", "mailed"}
    /\ pc' = IF selected_app # None THEN "selected" ELSE "idle"
    /\ app_details' = NoDetails
    /\ df' = NoFrame
    /\ filtered_df' = NoFrame
    /\ progress' = <<>>
    /\ scored' = {}
    /\ metrics' = NoMetrics
    /\ ui' = NoUi
    /\ pdf' = NoPdf
    /\ email' = NoEmail
    /\ raised' = ""
    /\ UNCHANGED <<selected_app, pos_threshold, neg_threshold, fraud_threshold>>
    /\ UNCHANGED cmpVars
    /\ UNCHANGED fetchVars

Next ==
    ClickAnalyze \/ Analyze \/ Filter \/ Summarise \/ Export \/ EmailReport \/ Rerun

Spec == Init /\ [][Next]_vars

(* ------------------------------------------------------------------ *)
(* calculate_sentiment_metrics and the risk rule on a classified       *)
(* collection                                                          *)
(* ------------------------------------------------------------------ *)
\* a collection of P texts TextBlob scores 1.0, N texts with a keyword and U
\* missing texts, in this order or in the opposite one
CountedRows(P, N, U, reversed) ==
    LET n == P + N + U
        at(i) == IF i <= P THEN Row(OkText(100), 0)
                 ELSE IF i <= P + N THEN Row(ScamText, 0)
                 ELSE Row(NaN, 3)
    IN  [i \in 1..n |-> IF reversed THEN at(n + 1 - i) ELSE at(i)]

\* the counts of the larger collections: 100 reviews of which 35 are Negative,
\* and 20 reviews of which 7 are Negative
ScenarioCounts == {<<65, 35, 0>>, <<0, 35, 65>>, <<13, 7, 0>>, <<3, 7, 10>>}

DetailsAll(id) ==
    {NoDetails, Details(id, ScoreMissing), Details(id, ScoreNone),
     Details(id, Score(FromInt(0))), Details(id, Score(Rat(45, 10))),
     Details(id, Score(FromInt(5)))}

\* the positions of the risk alert slider: 10 to 50 in steps of 5
FraudRange == {10 + 5 * k : k \in 0..8}

InitMetrics ==
    /\ pc = "classified"
    /\ selected_app = "com.a"
    /\ pos_threshold = 10
    /\ neg_threshold = -10
    /\ fraud_threshold = 30
    /\ app_details \in DetailsAll("com.a")
    /\ df = NoFrame
    /\ \E P \in 0..100, N \in 0..35, U \in 0..100, rev \in BOOLEAN :
        /\ P + N + U <= MaxClassified \/ <<P, N, U>> \in ScenarioCounts
        /\ filtered_df =
             process_reviews(DataFrame({"content", "at"}, CountedRows(P, N, U, rev)),
                             10, -10, FALSE).df
    /\ progress = <<>>
    /\ scored = {}
    /\ metrics = NoMetrics
    /\ ui = NoUi
    /\ pdf = NoPdf
    /\ email = NoEmail
    /\ raised = ""
    /\ CmpInit
    /\ FetchInit

\* calculate_sentiment_metrics(filtered_df, app_details), then the risk alert
\* of the page, of the PDF report and of the e-mail
CalculateMetrics ==
    /\ pc = "classified"
    /\ \E ft \in FraudRange :
        LET m == calculate_sentiment_metrics(filtered_df, app_details)
        IN  /\ fraud_threshold' = ft
            /\ metrics' = m
            /\ raised' = m.raised
            /\ ui' = [ui EXCEPT !.alert = UiRiskAlert(m.negative_pct, ft)]
            /\ pdf' = generate_single_app_pdf_report(app_details, m, ft)
            /\ email' = send_analysis_email(app_details, m, ft)
    /\ pc' = "calculated"
    /\ UNCHANGED <<selected_app, pos_threshold, neg_threshold, app_details, df, filtered_df,
                   progress, scored>>
    /\ UNCHANGED cmpVars
    /\ UNCHANGED fetchVars

NextMetrics == CalculateMetrics

SpecMetrics == InitMetrics /\ [][NextMetrics]_vars

(* ------------------------------------------------------------------ *)
(* The comparison of two apps (fraud_app_analyzer3.py)                 *)
(* ------------------------------------------------------------------ *)
\* the label of polarity p with comparisons that are not strict
classify_cmp_inclusive(p, pos_thresh, neg_thresh) ==
    IF p >= pos_thresh THEN "Positive"
    ELSE IF p <= neg_thresh THEN "Negative"
    ELSE "Neutral"

\* the lambda of get_sentiment_metrics_for_comparison: the label of polarity p
classify_cmp(p, pos_thresh, neg_thresh) ==
    IF p > pos_thresh THEN "Positive"
    ELSE IF p < neg_thresh THEN "Negative"
    ELSE "Neutral"

\* df_app of get_sentiment_metrics_for_comparison with its polarity and
\* sentiment columns
comparison_frame(df_app, pos_thresh, neg_thresh) ==
    DataFrame(df_app.cols \cup {"polarity", "sentiment"},
        [i \in 1..Len(df_app.rows) |->
            LET p == analyze_sentiment(df_app.rows[i].content).polarity
            IN  [df_app.rows[i] EXCEPT
                   !.polarity = p,
                   !.sentiment = classify_cmp(p, pos_thresh, neg_thresh)]])

ZeroCmpMetrics ==
    [raised |-> "", total |-> 0, positive_pct |-> FromInt(0), negative_pct |-> FromInt(0),
     neutral_pct |-> FromInt(0), app_rating_score |-> FromInt(0)]

\* get_sentiment_metrics_for_comparison, given what fetch_reviews returned
get_sentiment_metrics_for_comparison(app_reviews, pos_thresh, neg_thresh) ==
    IF app_reviews.rows = <<>> THEN ZeroCmpMetrics
    ELSE IF "content" \notin FrameOf(app_reviews).cols THEN ZeroCmpMetrics
    ELSE LET df_app == comparison_frame(FrameOf(app_reviews), pos_thresh, neg_thresh)
             m == calculate_sentiment_metrics(df_app, NoDetails)
         IN  [raised |-> m.raised, total |-> Len(df_app.rows),
              positive_pct |-> m.positive_pct, negative_pct |-> m.negative_pct,
              neutral_pct |-> m.neutral_pct, app_rating_score |-> m.app_rating_score]

\* df_app as the call leaves it (no frame when the call returned early)
comparison_frame_of(app_reviews, pos_thresh, neg_thresh) ==
    IF app_reviews.rows = <<>> THEN NoFrame
    ELSE IF "content" \notin FrameOf(app_reviews).cols THEN FrameOf(app_reviews)
    ELSE comparison_frame(FrameOf(app_reviews), pos_thresh, neg_thresh)

\* display_comparison_bar(label, value1, value2, max_value): the widths and
\* the colours of the two bars
display_comparison_bar(label, value1, value2, max_value) ==
    LET width_raw(v) == IF RGt(max_value, FromInt(0))
                        THEN RMul(RDiv(v, max_value), FromInt(100))
                        ELSE FromInt(0)
        width(v) == RMax(width_raw(v),
                         IF RGt(width_raw(v), FromInt(0)) THEN FromInt(2) ELSE FromInt(0))
        \* "Score" in label or "Rating" in label
        scored_label == label \in {"Play Store Score", "App Rating Score (%)"}
        fixed == CASE label = "Positive Sentiment (%)" -> "#27ae60"
                   [] label = "Negative Sentiment (%)" -> "#e74c3c"
                   [] label = "Neutral Sentiment (%)" -> "#7f8c8d"
                   [] OTHER -> "#3498db"
    IN  [label |-> label,
         width1 |-> width(value1), width2 |-> width(value2),
         color1 |-> IF fixed = "#3498db" /\ scored_label
                    THEN get_score_color(value1, max_value) ELSE fixed,
         color2 |-> IF fixed = "#3498db" /\ scored_label
                    THEN get_score_color(value2, max_value) ELSE fixed]

\* a comparison card formats the score with :.2f, which a None score refuses
CardRaises(details) ==
    ~details.isNone /\ DetailsGetScore(details, FromInt(0)).kind = "None"

\* the reviews fetch_reviews returns for an app of the comparison
CmpContentSamples == {NaN, ScamText, OkText(10), OkText(100)}
CmpCollections ==
    {[cols |-> {"content", "at"}, rows |-> r] :
        r \in SeqUpTo({Row(c, 0) : c \in CmpContentSamples}, MaxCmpReviews)}
    \cup {[cols |-> {"content"}, rows |-> <<Row(c, NoAt)>>] : c \in {ScamText, OkText(100)}}
    \cup {[cols |-> {"at"}, rows |-> <<Row(NoText, 0)>>]}

\* the Compare button accepting for slot 2 the app of slot 1
ClickCompareAnyApp ==
    /\ \E app_id \in AppIds :
        IF app1_id = None
        THEN /\ app1_id' = app_id
             /\ \E d \in DetailsSamples(app_id) : app1_details' = d
             /\ cmp_ui' = NoCmpUi
             /\ UNCHANGED <<app2_id, app2_details>>
        ELSE IF app2_id = None
        THEN IF TRUE
             THEN /\ app2_id' = app_id
                  /\ \E d \in DetailsSamples(app_id) : app2_details' = d
                  /\ cmp_ui' = NoCmpUi
                  /\ UNCHANGED <<app1_id, app1_details>>
             ELSE /\ cmp_ui' = [NoCmpUi EXCEPT !.warning = "Cannot compare an app to itself"]
                  /\ UNCHANGED <<app1_id, app1_details, app2_id, app2_details>>
        ELSE /\ cmp_ui' = [NoCmpUi EXCEPT !.warning = "You can only compare two apps at a time"]
             /\ UNCHANGED <<app1_id, app1_details, app2_id, app2_details>>
    /\ pc' = "idle"
    /\ raised' = ""
    /\ app1_metrics' = NoCmpMetrics
    /\ app2_metrics' = NoCmpMetrics
    /\ cmp_reviews' = <<NoReviews, NoReviews>>
    /\ cmp_frames' = <<NoFrame, NoFrame>>
    /\ UNCHANGED runVars
    /\ UNCHANGED <<pos_threshold, neg_threshold, fraud_threshold>>
    /\ UNCHANGED fetchVars

\* the Compare button moving app 2 to slot 1 when both slots are filled
ClickCompareShifting ==
    /\ \E app_id \in AppIds :
        IF app1_id = None
        THEN /\ app1_id' = app_id
             /\ \E d \in DetailsSamples(app_id) : app1_details' = d
             /\ cmp_ui' = NoCmpUi
             /\ UNCHANGED <<app2_id, app2_details>>
        ELSE IF app2_id = None
        THEN IF app_id # app1_id
             THEN /\ app2_id' = app_id
                  /\ \E d \in DetailsSamples(app_id) : app2_details' = d
                  /\ cmp_ui' = NoCmpUi
                  /\ UNCHANGED <<app1_id, app1_details>>
             ELSE /\ cmp_ui' = [NoCmpUi EXCEPT !.warning = "Cannot compare an app to itself"]
                  /\ UNCHANGED <<app1_id, app1_details, app2_id, app2_details>>
        ELSE /\ cmp_ui' = NoCmpUi
             /\ app1_id' = app2_id
             /\ app1_details' = app2_details
             /\ app2_id' = app_id
             /\ \E d \in DetailsSamples(app_id) : app2_details' = d
    /\ pc' = "idle"
    /\ raised' = ""
    /\ app1_metrics' = NoCmpMetrics
    /\ app2_metrics' = NoCmpMetrics
    /\ cmp_reviews' = <<NoReviews, NoReviews>>
    /\ cmp_frames' = <<NoFrame, NoFrame>>
    /\ UNCHANGED runVars
    /\ UNCHANGED <<pos_threshold, neg_threshold, fraud_threshold>>
    /\ UNCHANGED fetchVars

\* the Compare button of a search result
ClickCompare ==
    /\ \E app_id \in AppIds :
        IF app1_id = None
        THEN /\ app1_id' = app_id
             /\ \E d \in DetailsSamples(app_id) : app1_details' = d
             /\ cmp_ui' = NoCmpUi
             /\ UNCHANGED <<app2_id, app2_details>>
        ELSE IF app2_id = None
        THEN IF app_id # app1_id
             THEN /\ app2_id' = app_id
                  /\ \E d \in DetailsSamples(app_id) : app2_details' = d
                  /\ cmp_ui' = NoCmpUi
                  /\ UNCHANGED <<app1_id, app1_details>>
             ELSE /\ cmp_ui' = [NoCmpUi EXCEPT !.warning = "Cannot compare an app to itself"]
                  /\ UNCHANGED <<app1_id, app1_details, app2_id, app2_details>>
        ELSE /\ cmp_ui' = [NoCmpUi EXCEPT !.warning = "You can only compare two apps at a time"]
             /\ UNCHANGED <<app1_id, app1_details, app2_id, app2_details>>
    /\ pc' = "idle"
    /\ raised' = ""
    /\ app1_metrics' = NoCmpMetrics
    /\ app2_metrics' = NoCmpMetrics
    /\ cmp_reviews' = <<NoReviews, NoReviews>>
    /\ cmp_frames' = <<NoFrame, NoFrame>>
    /\ UNCHANGED runVars
    /\ UNCHANGED <<pos_threshold, neg_threshold, fraud_threshold>>
    /\ UNCHANGED fetchVars

\* the Clear Compared Apps button offered as soon as slot 1 is filled
ClearComparedEarly ==
    /\ app1_id # None
    /\ app2_id = None \/ ~CardRaises(app1_details)
    /\ app1_id' = None
    /\ app2_id' = None
    /\ app1_details' = NoDetails
    /\ app2_details' = NoDetails
    /\ pc' = "idle"
    /\ raised' = ""
    /\ app1_metrics' = NoCmpMetrics
    /\ app2_metrics' = NoCmpMetrics
    /\ cmp_reviews' = <<NoReviews, NoReviews>>
    /\ cmp_frames' = <<NoFrame, NoFrame>>
    /\ cmp_ui' = NoCmpUi
    /\ UNCHANGED runVars
    /\ UNCHANGED <<pos_threshold, neg_threshold, fraud_threshold>>
    /\ UNCHANGED fetchVars

\* the Clear Compared Apps button, which the comparison section renders after
\* the card of app 1
ClearCompared ==
    /\ app1_id # None
    /\ app2_id # None
    /\ ~CardRaises(app1_details)
    /\ app1_id' = None
    /\ app2_id' = None
    /\ app1_details' = NoDetails
    /\ app2_details' = NoDetails
    /\ pc' = "idle"
    /\ raised' = ""
    /\ app1_metrics' = NoCmpMetrics
    /\ app2_metrics' = NoCmpMetrics
    /\ cmp_reviews' = <<NoReviews, NoReviews>>
    /\ cmp_frames' = <<NoFrame, NoFrame>>
    /\ cmp_ui' = NoCmpUi
    /\ UNCHANGED runVars
    /\ UNCHANGED <<pos_threshold, neg_threshold, fraud_threshold>>
    /\ UNCHANGED fetchVars

\* the comparison section: the two cards
CompareCards ==
    /\ pc = "idle"
    /\ app1_id # None
    /\ app2_id # None
    /\ IF CardRaises(app1_details)
       THEN /\ raised' = "TypeError"
            /\ pc' = "crashed"
            /\ cmp_ui' = [cmp_ui EXCEPT !.cards = <<>>]
       ELSE IF CardRaises(app2_details)
       THEN /\ raised' = "TypeError"
            /\ pc' = "crashed"
            /\ cmp_ui' = [cmp_ui EXCEPT !.cards = <<~app1_details.isNone>>]
       ELSE /\ cmp_ui' = [cmp_ui EXCEPT !.cards = <<~app1_details.isNone, ~app2_details.isNone>>]
            /\ pc' = IF ~app1_details.isNone /\ ~app2_details.isNone THEN "cards" ELSE "cmp_done"
            /\ UNCHANGED raised
    /\ UNCHANGED <<app1_id, app2_id, app1_details, app2_details, app1_metrics, app2_metrics,
                   cmp_reviews, cmp_frames>>
    /\ UNCHANGED runVars
    /\ UNCHANGED <<pos_threshold, neg_threshold, fraud_threshold>>
    /\ UNCHANGED fetchVars

\* the comparison section: the metrics of the two apps
CompareMetrics ==
    /\ pc = "cards"
    /\ \E reviews1 \in CmpCollections, reviews2 \in CmpCollections,
          pos \in PosSamples, neg \in NegSamples :
        /\ pos_threshold' = pos
        /\ neg_threshold' = neg
        /\ app1_metrics' = get_sentiment_metrics_for_comparison(reviews1, pos, neg)
        /\ app2_metrics' = get_sentiment_metrics_for_comparison(reviews2, pos, neg)
        /\ cmp_reviews' = <<reviews1, reviews2>>
        /\ cmp_frames' = <<comparison_frame_of(reviews1, pos, neg),
                           comparison_frame_of(reviews2, pos, neg)>>
    /\ IF app1_metrics'.raised # "" \/ app2_metrics'.raised # ""
       THEN /\ raised' = IF app1_metrics'.raised # "" THEN app1_metrics'.raised
                         ELSE app2_metrics'.raised
            /\ pc' = "crashed"
       ELSE /\ pc' = "compared"
            /\ UNCHANGED raised
    /\ UNCHANGED <<app1_id, app2_id, app1_details, app2_details, cmp_ui, fraud_threshold>>
    /\ UNCHANGED runVars
    /\ UNCHANGED fetchVars

\* the comparison section: the bars and the comparison PDF report
CompareRender ==
    /\ pc = "compared"
    /\ LET score1 == DetailsGetScore(app1_details, FromInt(0))
           score2 == DetailsGetScore(app2_details, FromInt(0))
           most == IF app1_metrics.total > app2_metrics.total
                   THEN app1_metrics.total ELSE app2_metrics.total
       IN  IF score1.kind = "None" \/ score2.kind = "None"
           THEN /\ raised' = "TypeError"
                /\ pc' = "crashed"
                /\ UNCHANGED cmp_ui
           ELSE /\ cmp_ui' =
                     [cmp_ui EXCEPT
                        !.bars =
                          <<display_comparison_bar("Play Store Score",
                                score1.val, score2.val, FromInt(5)),
                            display_comparison_bar("Total Reviews",
                                FromInt(app1_metrics.total), FromInt(app2_metrics.total),
                                FromInt(IF most > 1 THEN most ELSE 1)),
                            display_comparison_bar("App Rating Score (%)",
                                app1_metrics.app_rating_score, app2_metrics.app_rating_score,
                                FromInt(100)),
                            display_comparison_bar("Positive Sentiment (%)",
                                app1_metrics.positive_pct, app2_metrics.positive_pct,
                                FromInt(100)),
                            display_comparison_bar("Negative Sentiment (%)",
                                app1_metrics.negative_pct, app2_metrics.negative_pct,
                                FromInt(100)),
                            display_comparison_bar("Neutral Sentiment (%)",
                                app1_metrics.neutral_pct, app2_metrics.neutral_pct,
                                FromInt(100))>>,
                        !.pdf = TRUE]
                /\ pc' = "cmp_done"
                /\ UNCHANGED raised
    /\ UNCHANGED <<app1_id, app2_id, app1_details, app2_details, app1_metrics, app2_metrics,
                   cmp_reviews, cmp_frames>>
    /\ UNCHANGED runVars
    /\ UNCHANGED <<pos_threshold, neg_threshold, fraud_threshold>>
    /\ UNCHANGED fetchVars

NextCompare ==
    ClickCompare \/ ClearCompared \/ CompareCards \/ CompareMetrics \/ CompareRender

SpecCompare == Init /\ [][NextCompare]_vars

\* the button handlers that write the session state: Analyze, Compare and
\* Clear Compared Apps, clicked in any order
NextSession == ClickAnalyze \/ ClickCompare \/ ClearCompared

SpecSession == Init /\ [][NextSession]_vars

(* ------------------------------------------------------------------ *)
(* process_reviews on one review text                                  *)
(* ------------------------------------------------------------------ *)
\* the letters of the enumerated texts: those of the keyword "lie", one of
\* them a capital, and a letter of no keyword
Alphabet == {"l", "I", "e", "b"}
\* the scores TextBlob may give: the ends of its range, 0 and the default
\* slider positions
BlobSamples == {-100, -10, 0, 10, 100}
\* "This app is a total scam, uninstall now"
ScenarioText ==
    <<"T","h","i","s"," ","a","p","p"," ","i","s"," ","a"," ","t","o","t","a","l"," ",
      "s","c","a","m",","," ","u","n","i","n","s","t","a","l","l"," ","n","o","w">>
\* "I believe it is GREAT"
BelieveText ==
    <<"I"," ","b","e","l","i","e","v","e"," ","i","t"," ","i","s"," ","G","R","E","A","T">>
\* "Waste Of Time"
WasteText == <<"W","a","s","t","e"," ","O","f"," ","T","i","m","e">>
\* "Fast and reliable"
ReliableText == <<"F","a","s","t"," ","a","n","d"," ","r","e","l","i","a","b","l","e">>

TextSamples ==
    {NaN, Text(<<>>, 0)}
    \cup {Text(c, b) : c \in (SeqUpTo(Alphabet, MaxLen) \ {<<>>}), b \in BlobSamples}
    \cup {Text(c, b) : c \in {ScenarioText, BelieveText, WasteText, ReliableText},
                        b \in BlobSamples}

\* positions of the two sentiment sliders (0.0 to 1.0 and -1.0 to 0.0)
PosRange == {0, 10, 100}
NegRange == {-100, -80, -10, 0}

\* collections without the text column or without the timestamp column
MalformedFrames ==
    {DataFrame({"content"}, r) :
        r \in SeqUpTo({Row(c, NoAt) : c \in {NaN, ScamText, OkText(100)}}, 2)}
    \cup {DataFrame({"at"}, r) : r \in SeqUpTo({Row(NoText, a) : a \in AtSamples}, 2)}
    \cup {DataFrame({}, <<>>)}

\* a review text that is a number, and the empty text (TextBlob finds nothing
\* to assess in it: 0.0)
Num == [kind |-> "int", chars |-> <<>>, blob |-> 0]
EmptyText == Text(<<>>, 0)

\* collections in which reviews without a usable text stand among others
MixedFrames ==
    {DataFrame({"content", "at"}, r) :
        r \in SeqUpTo({Row(c, 0) : c \in {NaN, Num, EmptyText, ScamText, OkText(100)}},
                      MaxReviews + 1)}

\* sizes of the collections that take one batch, exactly one or two batches,
\* and batches with a remainder
BatchSizes == {99, 100, 101, 200, 250}

\* a collection of n reviews whose texts and timestamps change with the position
BatchRows(n) ==
    [i \in 1..n |->
        Row(CASE i % 3 = 0 -> ScamText
              [] i % 3 = 1 -> OkText(100)
              [] OTHER -> NaN,
            IF i % 2 = 0 THEN 0 ELSE 3)]

InitText ==
    /\ pc = "text"
    /\ selected_app = None
    /\ pos_threshold = 10
    /\ neg_threshold = -10
    /\ fraud_threshold = 30
    /\ app_details = NoDetails
    /\ \/ \E t \in TextSamples : df = DataFrame({"content", "at"}, <<Row(t, 0)>>)
       \/ df \in MalformedFrames
       \/ df \in MixedFrames
       \/ \E n \in BatchSizes : df = DataFrame({"content", "at"}, BatchRows(n))
    /\ filtered_df = NoFrame
    /\ progress = <<>>
    /\ scored = {}
    /\ metrics = NoMetrics
    /\ ui = NoUi
    /\ pdf = NoPdf
    /\ email = NoEmail
    /\ raised = ""
    /\ CmpInit
    /\ FetchInit

\* process_reviews(df, pos_threshold, neg_threshold, progress_bar) on the
\* collection, and the classification of the comparison on the same records
ProcessText ==
    /\ pc = "text"
    /\ \E pos \in PosRange, neg \in NegRange :
        LET r == process_reviews(df, pos, neg, TRUE)
            app_reviews == [cols |-> df.cols, rows |-> df.rows]
        IN  /\ pos_threshold' = pos
            /\ neg_threshold' = neg
            /\ df' = r.df
            /\ progress' = r.progress
            /\ scored' = r.scored
            /\ raised' = r.raised
            /\ cmp_reviews' = <<app_reviews, NoReviews>>
            /\ cmp_frames' = <<comparison_frame_of(app_reviews, pos, neg), NoFrame>>
            /\ app1_metrics' = get_sentiment_metrics_for_comparison(app_reviews, pos, neg)
    /\ pc' = "text_done"
    /\ UNCHANGED <<selected_app, fraud_threshold, app_details, filtered_df, metrics, ui,
                   pdf, email>>
    /\ UNCHANGED <<app1_id, app2_id, app1_details, app2_details, app2_metrics, cmp_ui>>
    /\ UNCHANGED fetchVars

\* process_reviews once more on the collection it returned, with the same
\* thresholds
ProcessAgain ==
    /\ pc = "text_done"
    /\ raised = ""
    /\ LET r == process_reviews(df, pos_threshold, neg_threshold, TRUE)
       IN  /\ df' = r.df
           /\ progress' = r.progress
           /\ scored' = r.scored
           /\ raised' = r.raised
    /\ pc' = "text_again"
    /\ UNCHANGED <<selected_app, pos_threshold, neg_threshold, fraud_threshold, app_details,
                   filtered_df, metrics, ui, pdf, email>>
    /\ UNCHANGED cmpVars
    /\ UNCHANGED fetchVars

NextText == ProcessText \/ ProcessAgain

SpecText == InitText /\ [][NextText]_vars

(* ------------------------------------------------------------------ *)
(* The classifier with thresholds in any order                         *)
(* ------------------------------------------------------------------ *)
\* polarities of the reviews: TextBlob scores without a keyword, and the -0.8
\* of a keyword
PolarityTexts == {OkText(b) : b \in {-100, -50, -10, 0, 10, 50, 100}} \cup {ScamText}
\* thresholds handed to the functions, not confined to the slider ranges
ThresholdsAny == {-50, -10, 0, 10, 50}

InitClassify ==
    /\ pc = "label"
    /\ selected_app = None
    /\ pos_threshold = 10
    /\ neg_threshold = -10
    /\ fraud_threshold = 30
    /\ app_details = NoDetails
    /\ \E t \in PolarityTexts : df = DataFrame({"content", "at"}, <<Row(t, 0)>>)
    /\ filtered_df = NoFrame
    /\ progress = <<>>
    /\ scored = {}
    /\ metrics = NoMetrics
    /\ ui = NoUi
    /\ pdf = NoPdf
    /\ email = NoEmail
    /\ raised = ""
    /\ CmpInit
    /\ FetchInit

\* process_reviews and the classification of the comparison on one review,
\* the two thresholds in any order
ProcessAnyThresholds ==
    /\ pc = "label"
    /\ \E pos \in ThresholdsAny, neg \in ThresholdsAny :
        LET r == process_reviews(df, pos, neg, TRUE)
            app_reviews == [cols |-> df.cols, rows |-> df.rows]
        IN  /\ pos_threshold' = pos
            /\ neg_threshold' = neg
            /\ df' = r.df
            /\ progress' = r.progress
            /\ scored' = r.scored
            /\ raised' = r.raised
            /\ cmp_reviews' = <<app_reviews, NoReviews>>
            /\ cmp_frames' = <<comparison_frame_of(app_reviews, pos, neg), NoFrame>>
            /\ app1_metrics' = get_sentiment_metrics_for_comparison(app_reviews, pos, neg)
    /\ pc' = "labelled"
    /\ UNCHANGED <<selected_app, fraud_threshold, app_details, filtered_df, metrics, ui,
                   pdf, email>>
    /\ UNCHANGED <<app1_id, app2_id, app1_details, app2_details, app2_metrics, cmp_ui>>
    /\ UNCHANGED fetchVars

NextClassify == ProcessAnyThresholds

SpecClassify == InitClassify /\ [][NextClassify]_vars

(* ------------------------------------------------------------------ *)
(* calculate_sentiment_metrics on a classified collection together     *)
(* with the comparison of two apps                                     *)
(* ------------------------------------------------------------------ *)
InitMetricsCompare == Init \/ InitMetrics

\* the comparison section belongs to a run of the script; a collection handed
\* to calculate_sentiment_metrics directly has no page around it
NextMetricsCompare ==
    \/ NextMetrics
    \/ pc \notin {"classified", "calculated"} /\ NextCompare

SpecMetricsCompare == InitMetricsCompare /\ [][NextMetricsCompare]_vars

(* ------------------------------------------------------------------ *)
(* Fetching from the directory service, with the cache in front of it  *)
(* ------------------------------------------------------------------ *)
\* values of the max_reviews slider (100 to 10000 in steps of 100): less than
\* a page, and two pages and a remainder
MaxReviewsRange == {100, 500}

\* the directory calls a fetch of max_reviews may take
PagesFor(max_reviews) == (max_reviews + 199) \div 200

\* what the service does call by call during one fetch of max_reviews; the
\* fetch stops at the first reply that is not a full page with a token, and
\* the replies it would have had after that one are left at "full"
ScriptsFor(max_reviews) ==
    {script \in [1..PagesFor(max_reviews) -> PageReplies] :
        \A k, j \in 1..PagesFor(max_reviews) :
            (k < j /\ script[k] # "full") => script[j] = "full"}

\* what the service answers to app(app_id): it fails, or it gives the details
\* of an app nobody rated, or of a rated app
DetailsReplies(app_id) ==
    {[fails |-> TRUE, details |-> NoDetails],
     [fails |-> FALSE, details |-> Details(app_id, ScoreNone)],
     [fails |-> FALSE, details |-> Details(app_id, Score(Rat(45, 10)))]}

\* fetch_reviews behind a cache that keeps no result of a failed fetch
FetchReviewsForgettingFailures ==
    /\ \E app_id \in AppIds, max_reviews \in MaxReviewsRange :
        LET key == <<app_id, max_reviews>>
        IN  IF key \in DOMAIN reviews_cache
            THEN /\ fetch' = [NoFetch EXCEPT !.fn = "fetch_reviews", !.args = key,
                                             !.hit = TRUE,
                                             !.reviews = reviews_cache[key]]
                 /\ UNCHANGED reviews_cache
            ELSE /\ Cardinality(DOMAIN reviews_cache) + Cardinality(DOMAIN details_cache)
                      < MaxFetches
                 /\ \E script \in ScriptsFor(max_reviews) :
                      LET r == fetch_reviews(app_id, max_reviews, script)
                      IN  /\ fetch' = [NoFetch EXCEPT
                                         !.fn = "fetch_reviews", !.args = key,
                                         !.calls = r.calls, !.pages = r.pages,
                                         !.tokens = r.tokens, !.error = r.error,
                                         !.reviews = r.reviews]
                          /\ reviews_cache' = IF r.error THEN reviews_cache
                                               ELSE (key :> r.reviews) @@ reviews_cache
    /\ UNCHANGED details_cache
    /\ UNCHANGED <<pc, pos_threshold, neg_threshold, fraud_threshold, raised>>
    /\ UNCHANGED runVars
    /\ UNCHANGED cmpVars

\* fetch_reviews(app_id, country, max_reviews) behind st.cache_data
FetchReviews ==
    /\ \E app_id \in AppIds, max_reviews \in MaxReviewsRange :
        LET key == <<app_id, max_reviews>>
        IN  IF key \in DOMAIN reviews_cache
            THEN /\ fetch' = [NoFetch EXCEPT !.fn = "fetch_reviews", !.args = key,
                                             !.hit = TRUE,
                                             !.reviews = reviews_cache[key]]
                 /\ UNCHANGED reviews_cache
            ELSE /\ Cardinality(DOMAIN reviews_cache) + Cardinality(DOMAIN details_cache)
                      < MaxFetches
                 /\ \E script \in ScriptsFor(max_reviews) :
                      LET r == fetch_reviews(app_id, max_reviews, script)
                      IN  /\ fetch' = [NoFetch EXCEPT
                                         !.fn = "fetch_reviews", !.args = key,
                                         !.calls = r.calls, !.pages = r.pages,
                                         !.tokens = r.tokens, !.error = r.error,
                                         !.reviews = r.reviews]
                          /\ reviews_cache' = (key :> r.reviews) @@ reviews_cache
    /\ UNCHANGED details_cache
    /\ UNCHANGED <<pc, pos_threshold, neg_threshold, fraud_threshold, raised>>
    /\ UNCHANGED runVars
    /\ UNCHANGED cmpVars

\* fetch_app_details(app_id, country) behind st.cache_data
FetchAppDetails ==
    /\ \E app_id \in AppIds :
        LET key == <<app_id>>
        IN  IF key \in DOMAIN details_cache
            THEN /\ fetch' = [NoFetch EXCEPT !.fn = "fetch_app_details", !.args = key,
                                             !.hit = TRUE,
                                             !.details = details_cache[key]]
                 /\ UNCHANGED details_cache
            ELSE /\ Cardinality(DOMAIN reviews_cache) + Cardinality(DOMAIN details_cache)
                      < MaxFetches
                 /\ \E reply \in DetailsReplies(app_id) :
                      LET r == fetch_app_details(app_id, reply)
                      IN  /\ fetch' = [NoFetch EXCEPT
                                         !.fn = "fetch_app_details", !.args = key,
                                         !.calls = <<[count |-> 1,
                                                      continuation_token |-> NoToken]>>,
                                         !.error = r.error, !.details = r.details]
                          /\ details_cache' = (key :> r.details) @@ details_cache
    /\ UNCHANGED reviews_cache
    /\ UNCHANGED <<pc, pos_threshold, neg_threshold, fraud_threshold, raised>>
    /\ UNCHANGED runVars
    /\ UNCHANGED cmpVars

NextFetch == FetchReviews \/ FetchAppDetails

SpecFetch == Init /\ [][NextFetch]_vars

(* ------------------------------------------------------------------ *)
(* The loop of fetch_reviews, call by call                             *)
(* ------------------------------------------------------------------ *)
\* values of max_reviews given to the function: none, one, less than a page,
\* a page, a page and one, two pages, two pages and a remainder
PagingRange == {0, 1, 100, 200, 201, 400, 500}

\* fetch_reviews(app_id, country, max_reviews) is entered: all_reviews = [],
\* continuation_token = None
CallFetchReviews ==
    /\ pc \in {"idle", "paged"}
    /\ \E app_id \in AppIds, max_reviews \in PagingRange :
        fetch' = [NoFetch EXCEPT !.fn = "fetch_reviews", !.args = <<app_id, max_reviews>>]
    /\ pc' = "paging"
    /\ UNCHANGED <<reviews_cache, details_cache>>
    /\ UNCHANGED <<pos_threshold, neg_threshold, fraud_threshold, raised>>
    /\ UNCHANGED runVars
    /\ UNCHANGED cmpVars

\* the loop of fetch_reviews going on after a short page that came with a
\* token (given up after MaxPagingCalls calls)
PageStepIgnoringShortPages ==
    /\ pc = "paging"
    /\ LET max_reviews == fetch.args[2]
           all_reviews == fetch.reviews
           continuation_token ==
               IF fetch.tokens = <<>> THEN NoToken ELSE fetch.tokens[Len(fetch.tokens)]
           returned(all) == SubSeq(all, 1, Min(Len(all), max_reviews))
           count_to_fetch == Min(200, max_reviews - Len(all_reviews))
       IN  IF ~(Len(all_reviews) < max_reviews) \/ count_to_fetch <= 0
           THEN /\ fetch' = [fetch EXCEPT !.reviews = returned(all_reviews)]
                /\ pc' = "paged"
           ELSE \E reply \in PageReplies :
                  LET k == Len(fetch.calls) + 1
                      called == [fetch EXCEPT
                                   !.calls = Append(@, [count |-> count_to_fetch,
                                                        continuation_token |->
                                                            continuation_token])]
                      result == PageOf(reply, k, count_to_fetch)
                      new_token == TokenOf(reply, k)
                      got == [called EXCEPT !.pages = Append(@, result),
                                            !.tokens = Append(@, new_token),
                                            !.reviews = all_reviews \o result]
                  IN  IF reply = "error"
                      THEN /\ fetch' = [called EXCEPT !.error = TRUE, !.reviews = <<>>]
                           /\ pc' = "paged"
                      ELSE IF new_token = NoToken \/ k >= MaxPagingCalls
                      THEN /\ fetch' = [got EXCEPT !.reviews = returned(got.reviews)]
                           /\ pc' = "paged"
                      ELSE /\ fetch' = got
                           /\ pc' = "paging"
    /\ UNCHANGED <<reviews_cache, details_cache>>
    /\ UNCHANGED <<pos_threshold, neg_threshold, fraud_threshold, raised>>
    /\ UNCHANGED runVars
    /\ UNCHANGED cmpVars

\* one iteration of the while loop of fetch_reviews, or its return
PageStep ==
    /\ pc = "paging"
    /\ LET max_reviews == fetch.args[2]
           all_reviews == fetch.reviews
           continuation_token ==
               IF fetch.tokens = <<>> THEN NoToken ELSE fetch.tokens[Len(fetch.tokens)]
           returned(all) == SubSeq(all, 1, Min(Len(all), max_reviews))
           count_to_fetch == Min(200, max_reviews - Len(all_reviews))
       IN  IF ~(Len(all_reviews) < max_reviews) \/ count_to_fetch <= 0
           THEN /\ fetch' = [fetch EXCEPT !.reviews = returned(all_reviews)]
                /\ pc' = "paged"
           ELSE \E reply \in PageReplies :
                  LET k == Len(fetch.calls) + 1
                      called == [fetch EXCEPT
                                   !.calls = Append(@, [count |-> count_to_fetch,
                                                        continuation_token |->
                                                            continuation_token])]
                      result == PageOf(reply, k, count_to_fetch)
                      new_token == TokenOf(reply, k)
                      got == [called EXCEPT !.pages = Append(@, result),
                                            !.tokens = Append(@, new_token),
                                            !.reviews = all_reviews \o result]
                  IN  IF reply = "error"
                      THEN /\ fetch' = [called EXCEPT !.error = TRUE, !.reviews = <<>>]
                           /\ pc' = "paged"
                      ELSE IF new_token = NoToken \/ Len(result) < count_to_fetch
                      THEN /\ fetch' = [got EXCEPT !.reviews = returned(got.reviews)]
                           /\ pc' = "paged"
                      ELSE /\ fetch' = got
                           /\ pc' = "paging"
    /\ UNCHANGED <<reviews_cache, details_cache>>
    /\ UNCHANGED <<pos_threshold, neg_threshold, fraud_threshold, raised>>
    /\ UNCHANGED runVars
    /\ UNCHANGED cmpVars

NextPaging == CallFetchReviews \/ PageStep

\* every directory call returns or raises, so an iteration that has begun ends
SpecPaging == Init /\ [][NextPaging]_vars /\ WF_vars(PageStep)

(* ------------------------------------------------------------------ *)
(* The colours of the two scores                                       *)
(* ------------------------------------------------------------------ *)
\* store ratings from 0 to 5 in steps of 0.05
RatingSteps == {Rat(k, 20) : k \in 0..100}
\* rating scores from 0 to 100 in steps of 5, and two scores short of a tier
ScoreSteps == {FromInt(5 * k) : k \in 0..20} \cup {Rat(749, 10), Rat(399, 10)}

\* an app with a store rating and a rating score, analysed and in slot 1 of
\* the comparison
InitColor ==
    /\ pc = "scored"
    /\ selected_app = "com.a"
    /\ pos_threshold = 10
    /\ neg_threshold = -10
    /\ fraud_threshold = 30
    /\ \E r \in RatingSteps, score \in ScoreSteps :
        /\ app_details = Details("com.a", Score(r))
        /\ app1_details = Details("com.a", Score(r))
        /\ metrics = [NoMetrics EXCEPT
                        !.app_rating_score = score,
                        !.playstore_score = playstore_score_of(Details("com.a", Score(r)))]
        /\ app1_metrics = [ZeroCmpMetrics EXCEPT !.app_rating_score = score]
    /\ df = NoFrame
    /\ filtered_df = NoFrame
    /\ progress = <<>>
    /\ scored = {}
    /\ ui = NoUi
    /\ pdf = NoPdf
    /\ email = NoEmail
    /\ raised = ""
    /\ app1_id = "com.a"
    /\ app2_id = "com.b"
    /\ app2_details = Details("com.b", Score(Rat(45, 10)))
    /\ app2_metrics = ZeroCmpMetrics
    /\ cmp_reviews = <<NoReviews, NoReviews>>
    /\ cmp_frames = <<NoFrame, NoFrame>>
    /\ cmp_ui = NoCmpUi
    /\ FetchInit

\* the circles of the review summary, the score rows of the PDF report and the
\* score bars of the comparison
RenderScores ==
    /\ pc = "scored"
    /\ ui' = [ui EXCEPT
                !.circles = <<circular_display("Positive", metrics.positive_pct),
                              circular_display("Neutral", metrics.neutral_pct),
                              circular_display("Negative", metrics.negative_pct),
                              circular_display("App Rating", metrics.app_rating_score),
                              circular_display("PlayStore Score", metrics.playstore_score)>>]
    /\ pdf' = generate_single_app_pdf_report(app_details, metrics, fraud_threshold)
    /\ cmp_ui' =
         [cmp_ui EXCEPT
            !.bars = <<display_comparison_bar("Play Store Score",
                           DetailsGetScore(app1_details, FromInt(0)).val,
                           DetailsGetScore(app2_details, FromInt(0)).val, FromInt(5)),
                       display_comparison_bar("App Rating Score (%)",
                           app1_metrics.app_rating_score, app2_metrics.app_rating_score,
                           FromInt(100))>>]
    /\ pc' = "coloured"
    /\ UNCHANGED <<selected_app, pos_threshold, neg_threshold, fraud_threshold, app_details,
                   df, filtered_df, progress, scored, metrics, email, raised>>
    /\ UNCHANGED <<app1_id, app2_id, app1_details, app2_details, app1_metrics, app2_metrics,
                   cmp_reviews, cmp_frames>>
    /\ UNCHANGED fetchVars

NextColor == RenderScores

SpecColor == InitColor /\ [][NextColor]_vars

(* ------------------------------------------------------------------ *)
(* Properties                                                          *)
(* ------------------------------------------------------------------ *)
\* the number of rows of a collection that carry the label
CountOf(frame, label) ==
    Cardinality({i \in 1..Len(frame.rows) : frame.rows[i].sentiment = label})

\* the rule of the sentiment classifier, stated on a classified row
LabelFollowsRule(row, pos, neg) ==
    /\ row.polarity > pos => row.sentiment = "Positive"
    /\ row.polarity < neg => row.sentiment = "Negative"
    /\ (row.polarity <= pos /\ row.polarity >= neg) => row.sentiment = "Neutral"

\* C1: for thresholds with pos_threshold in [0,1] and neg_threshold in [-1,0],
\* process_reviews and the comparison label a review Positive when its
\* polarity is above pos_threshold, Negative when it is below neg_threshold
\* and Neutral otherwise, a polarity equal to a threshold being Neutral
C1_LabelRule ==
    (pc = "text_done" /\ raised = "") =>
        /\ \A i \in 1..Len(df.rows) :
              LabelFollowsRule(df.rows[i], pos_threshold, neg_threshold)
        /\ \A i \in 1..Len(cmp_frames[1].rows) :
              LabelFollowsRule(cmp_frames[1].rows[i], pos_threshold, neg_threshold)

\* a review whose polarity equals the positive threshold was labelled Neutral
\* on both paths
C1_Witness ==
    /\ pc = "text_done"
    /\ raised = ""
    /\ pos_threshold = 10
    /\ Len(df.rows) = 1
    /\ df.rows[1].polarity = pos_threshold
    /\ df.rows[1].sentiment = "Neutral"
    /\ cmp_frames[1].rows[1].polarity = pos_threshold
    /\ cmp_frames[1].rows[1].sentiment = "Neutral"

\* character c is character d written in either letter case
SameLetter(c, d) ==
    c = d \/ \E n \in 1..Len(LowerCase) :
                 {c, d} \subseteq {LowerCase[n], UpperCase[n]}

\* the text holds keyword kw, in any letter case, from position i + 1 on
KeywordAt(chars, kw, i) ==
    /\ i + Len(kw) <= Len(chars)
    /\ \A j \in 1..Len(kw) : SameLetter(chars[i + j], kw[j])

HasKeyword(text) ==
    /\ text.kind = "str"
    /\ \E k \in 1..Len(NEGATIVE_KEYWORDS), i \in 0..Len(text.chars) :
          KeywordAt(text.chars, NEGATIVE_KEYWORDS[k], i)

\* C2: a review text that contains an entry of NEGATIVE_KEYWORDS as a
\* substring, in any letter case, gets polarity -0.8 without TextBlob being
\* consulted, and is labelled Negative under the default thresholds 0.1, -0.1
C2_KeywordOverride ==
    (pc = "text_done" /\ raised = "") =>
        \A i \in 1..Len(df.rows) :
            HasKeyword(df.rows[i].content) =>
                /\ df.rows[i].polarity = -80
                /\ df.rows[i].content \notin scored
                /\ (pos_threshold = 10 /\ neg_threshold = -10) =>
                       df.rows[i].sentiment = "Negative"

\* the text "lIe", which TextBlob would score 1.0, was given -0.8 and
\* labelled Negative under the default thresholds
C2_Witness ==
    /\ pc = "text_done"
    /\ raised = ""
    /\ Len(df.rows) = 1
    /\ df.rows[1].content = Text(<<"l", "I", "e">>, 100)
    /\ df.rows[1].polarity = -80
    /\ scored = {}
    /\ pos_threshold = 10
    /\ neg_threshold = -10
    /\ df.rows[1].sentiment = "Negative"

\* the percentage of the rows of a collection that carry the label
PctOf(frame, label) == Rat(100 * CountOf(frame, label), Len(frame.rows))

\* the rating score the formula of the specification gives for a collection
ExpectedRatingScore(frame) ==
    IF Len(frame.rows) = 0 THEN FromInt(0)
    ELSE LET positive == PctOf(frame, "Positive")
             negative == PctOf(frame, "Negative")
             neutral == PctOf(frame, "Neutral")
             both == RAdd(positive, negative)
             pos_score == IF RGt(both, FromInt(0))
                          THEN RAdd(positive, RMul(neutral, RDiv(positive, both)))
                          ELSE positive
         IN  RMin(FromInt(100), pos_score)

\* C3: app_rating_score is 0 for no reviews and otherwise min(100, pos_score)
\* with pos_score = positive_pct + neutral_pct * positive_pct / (positive_pct +
\* negative_pct) when positive_pct + negative_pct > 0 and positive_pct
\* otherwise; it lies in [0, 100]
C3_RatingScore ==
    pc = "calculated" =>
        /\ metrics.raised = ""
        /\ metrics.app_rating_score = ExpectedRatingScore(filtered_df)
        /\ RGe(metrics.app_rating_score, FromInt(0))
        /\ RLe(metrics.app_rating_score, FromInt(100))

\* 7 Positive, 0 Negative and 3 Neutral reviews score 100
C3_Witness ==
    /\ pc = "calculated"
    /\ CountOf(filtered_df, "Positive") = 7
    /\ CountOf(filtered_df, "Negative") = 0
    /\ CountOf(filtered_df, "Neutral") = 3
    /\ metrics.positive_pct = FromInt(70)
    /\ metrics.neutral_pct = FromInt(30)
    /\ metrics.app_rating_score = FromInt(100)

\* C4: the app is flagged exactly when negative_pct > alert_threshold (a
\* percentage equal to the threshold does not flag it), and the page, the PDF
\* report and the e-mail agree on it
C4_RiskRule ==
    pc = "calculated" =>
        /\ ui.alert = "risk" <=>
              100 * CountOf(filtered_df, "Negative") > fraud_threshold * Len(filtered_df.rows)
        /\ ui.alert \in {"risk", "no_risk"}
        /\ email.alert = ui.alert
        /\ pdf.raised = "" => pdf.alert = ui.alert

\* 7 Negative reviews of 20 at threshold 35: not flagged by any of the three
C4_Witness ==
    /\ pc = "calculated"
    /\ Len(filtered_df.rows) = 20
    /\ CountOf(filtered_df, "Negative") = 7
    /\ fraud_threshold = 35
    /\ metrics.negative_pct = FromInt(35)
    /\ ui.alert = "no_risk"
    /\ pdf.raised = ""
    /\ pdf.alert = "no_risk"
    /\ email.alert = "no_risk"

\* C5: the counts of Positive, Negative and Neutral add up to the number of
\* reviews, each review carrying exactly one of the three labels
C5_CountsSum ==
    pc = "calculated" =>
        /\ \A i \in 1..Len(filtered_df.rows) : filtered_df.rows[i].sentiment \in Labels
        /\ Get(metrics.counts, "Positive", 0) + Get(metrics.counts, "Negative", 0)
             + Get(metrics.counts, "Neutral", 0) = Len(filtered_df.rows)
        /\ \A l \in Labels : Get(metrics.counts, l, 0) = CountOf(filtered_df, l)

\* a collection with several reviews of each label was counted
C5_Witness ==
    /\ pc = "calculated"
    /\ Len(filtered_df.rows) = 7
    /\ Get(metrics.counts, "Positive", 0) = 2
    /\ Get(metrics.counts, "Negative", 0) = 3
    /\ Get(metrics.counts, "Neutral", 0) = 2

\* C6: for a collection with reviews, each percentage is count / total * 100,
\* lies in [0, 100], and the three add up to 100
C6_Percentages ==
    (pc = "calculated" /\ Len(filtered_df.rows) > 0) =>
        /\ metrics.positive_pct = PctOf(filtered_df, "Positive")
        /\ metrics.negative_pct = PctOf(filtered_df, "Negative")
        /\ metrics.neutral_pct = PctOf(filtered_df, "Neutral")
        /\ \A x \in {metrics.positive_pct, metrics.negative_pct, metrics.neutral_pct} :
              ~IsErr(x) /\ RGe(x, FromInt(0)) /\ RLe(x, FromInt(100))
        /\ RAdd(RAdd(metrics.positive_pct, metrics.negative_pct), metrics.neutral_pct)
             = FromInt(100)

\* one review of each label: three percentages of a third of 100
C6_Witness ==
    /\ pc = "calculated"
    /\ Len(filtered_df.rows) = 3
    /\ metrics.positive_pct = Rat(100, 3)
    /\ metrics.negative_pct = Rat(100, 3)
    /\ metrics.neutral_pct = Rat(100, 3)

\* the comparison computed the metrics of the two apps
CmpMetricsComputed == pc = "compared" \/ (pc = "cmp_done" /\ cmp_ui.pdf)

\* the metrics the comparison holds for app i
CmpMetricsOf(i) == IF i = 1 THEN app1_metrics ELSE app2_metrics

\* C7: a collection with zero reviews never causes a division by zero or an
\* error: calculate_sentiment_metrics returns the three percentages and
\* app_rating_score as 0, the app is not flagged at any alert threshold, and in
\* a comparison the app without reviews gets all-zero metrics with total 0
\* while the metrics of the other app are computed
C7_ZeroReviews ==
    /\ raised # "ZeroDivisionError"
    /\ (pc = "calculated" /\ filtered_df.rows = <<>>) =>
          /\ metrics.raised = ""
          /\ metrics.total = 0
          /\ metrics.positive_pct = FromInt(0)
          /\ metrics.negative_pct = FromInt(0)
          /\ metrics.neutral_pct = FromInt(0)
          /\ metrics.app_rating_score = FromInt(0)
          /\ ui.alert = "no_risk"
          /\ email.alert = "no_risk"
          /\ pdf.raised = "" => pdf.alert = "no_risk"
    /\ CmpMetricsComputed =>
          \A i \in 1..2 :
              cmp_reviews[i].rows = <<>> =>
                  /\ CmpMetricsOf(i) = ZeroCmpMetrics
                  /\ CmpMetricsOf(3 - i).raised = ""
                  /\ (cmp_reviews[3 - i].rows # <<>> /\ "content" \in cmp_reviews[3 - i].cols) =>
                        /\ CmpMetricsOf(3 - i).total = Len(cmp_reviews[3 - i].rows)
                        /\ CmpMetricsOf(3 - i).negative_pct =
                              PctOf(cmp_frames[3 - i], "Negative")

\* a comparison of an app without reviews with an app of two reviews, one of
\* them Negative, rendered its bars and its report
C7_Witness ==
    /\ pc = "cmp_done"
    /\ cmp_ui.pdf
    /\ raised = ""
    /\ cmp_reviews[1].rows = <<>>
    /\ app1_metrics = ZeroCmpMetrics
    /\ app2_metrics.total = 2
    /\ app2_metrics.negative_pct = FromInt(50)
    /\ Len(cmp_ui.bars) = 6

\* calculate_sentiment_metrics was given a collection without reviews
C7_WitnessEmptyCollection ==
    /\ pc = "calculated"
    /\ filtered_df.rows = <<>>
    /\ metrics.total = 0
    /\ fraud_threshold = 10
    /\ ui.alert = "no_risk"

\* the store rating of the metadata, when there is one
HasRating(details) == ~details.isNone /\ details.score.kind = "num"

\* C8: playstore_score is store_rating * 20 when the metadata is present with
\* a rating that is not null and 0 otherwise; it lies in [0, 100] and does not
\* depend on the reviews
C8_PlaystoreScore ==
    pc = "calculated" =>
        /\ metrics.playstore_score =
              IF HasRating(app_details)
              THEN RMul(app_details.score.val, FromInt(20))
              ELSE FromInt(0)
        /\ RGe(metrics.playstore_score, FromInt(0))
        /\ RLe(metrics.playstore_score, FromInt(100))

\* store rating 4.5 and no reviews: playstore_score 90 and app_rating_score 0
C8_Witness ==
    /\ pc = "calculated"
    /\ HasRating(app_details)
    /\ app_details.score.val = Rat(45, 10)
    /\ filtered_df.rows = <<>>
    /\ metrics.playstore_score = FromInt(90)
    /\ metrics.app_rating_score = FromInt(0)

\* the metadata is absent, or it is present with a null store rating
MetadataAbsent(details) ==
    details.isNone \/ DetailsGetScore(details, FromInt(0)).kind = "None"

\* C9: absent metadata or an absent store rating is never raised as an
\* exception in a single-app analysis: the pipeline, the page, the PDF report
\* and the e-mail treat the absence as zero and run to completion
C9_AbsenceNeverRaises ==
    MetadataAbsent(app_details) => raised \notin {"AttributeError", "TypeError"}

\* C10: process_reviews raises a structural error whenever the collection
\* lacks the 'content' column or the 'at' column, and it raises before any
\* mutation: the collection is left as it was and no progress value is emitted
C10_StructuralError ==
    [][(pc = "text" /\ ("content" \notin df.cols \/ "at" \notin df.cols)) =>
           /\ raised' = "ValueError"
           /\ df' = df
           /\ {"polarity", "sentiment", "datetime"} \cap df'.cols = {}
           /\ progress' = <<>>
           /\ scored' = {}]_vars

\* a collection of reviews with texts and without timestamps was refused
C10_Witness ==
    /\ pc = "text_done"
    /\ raised = "ValueError"
    /\ "content" \in df.cols
    /\ "at" \notin df.cols
    /\ Len(df.rows) = 2
    /\ "polarity" \notin df.cols
    /\ progress = <<>>

\* a fetched collection with reviews that lacks the text or the timestamp field
Malformed(reviews) ==
    reviews.rows # <<>> /\ ~({"content", "at"} \subseteq reviews.cols)

\* C11: a run on a fetched collection with reviews that lacks the text field
\* or the timestamp field ends in a missing-field error and produces no
\* metrics, in the single-app analysis and for each app of a comparison
C11_MissingFieldError ==
    /\ Malformed(df) =>
          /\ raised = "ValueError" \/ ui.error # ""
          /\ metrics = NoMetrics
    /\ \A i \in 1..2 :
          Malformed(cmp_reviews[i]) =>
              /\ raised = "ValueError"
              /\ CmpMetricsOf(i) = NoCmpMetrics

\* the text of a review is not a string, or it is the empty string
NoUsableText(content) == content.kind # "str" \/ content.chars = <<>>

\* C12: a review whose text is not a string or is the empty string gets
\* polarity 0, and it never aborts the batch: process_reviews returns, and
\* every other review of the call has the polarity and the label of its own
\* text
C12_NonStringNeutral ==
    (pc = "text_done" /\ {"content", "at"} \subseteq df.cols) =>
        /\ raised = ""
        /\ \A i \in 1..Len(df.rows) :
              /\ NoUsableText(df.rows[i].content) => df.rows[i].polarity = 0
              /\ HasKeyword(df.rows[i].content) => df.rows[i].polarity = -80
              /\ (~NoUsableText(df.rows[i].content) /\ ~HasKeyword(df.rows[i].content)) =>
                    df.rows[i].polarity = df.rows[i].content.blob
              /\ LabelFollowsRule(df.rows[i], pos_threshold, neg_threshold)

\* a missing text, between a text TextBlob scores 1.0 and a text with a
\* keyword, got polarity 0 and its neighbours their own polarities
C12_Witness ==
    /\ pc = "text_done"
    /\ raised = ""
    /\ Len(df.rows) = 3
    /\ df.rows[1].content = OkText(100)
    /\ df.rows[1].polarity = 100
    /\ df.rows[2].content = NaN
    /\ df.rows[2].polarity = 0
    /\ df.rows[3].content = ScamText
    /\ df.rows[3].polarity = -80
    /\ pos_threshold = 10
    /\ neg_threshold = -10
    /\ df.rows[1].sentiment = "Positive"
    /\ df.rows[2].sentiment = "Neutral"
    /\ df.rows[3].sentiment = "Negative"

\* C13: process_reviews is idempotent: applied again to the collection it
\* returned, with the same thresholds, it gives every review the same polarity
\* and the same sentiment
C13_Idempotent ==
    [][(pc = "text_done" /\ pc' = "text_again") =>
           /\ raised' = ""
           /\ Len(df'.rows) = Len(df.rows)
           /\ \A i \in 1..Len(df.rows) :
                 /\ df'.rows[i].polarity = df.rows[i].polarity
                 /\ df'.rows[i].sentiment = df.rows[i].sentiment]_vars

\* a collection with a Positive, a Neutral and a Negative review after the
\* second application
C13_Witness ==
    /\ pc = "text_again"
    /\ raised = ""
    /\ Len(df.rows) = 3
    /\ df.rows[1].polarity = 100
    /\ df.rows[1].sentiment = "Positive"
    /\ df.rows[2].polarity = 0
    /\ df.rows[2].sentiment = "Neutral"
    /\ df.rows[3].polarity = -80
    /\ df.rows[3].sentiment = "Negative"

\* C14: for a collection of any size n, process_reviews produces n polarities,
\* the polarity and the label at position i being those of the text at
\* position i as analyze_sentiment gives them one by one; the rows, their
\* order, their texts and their timestamps are left as they were
C14_BatchingTransparent ==
    [][(pc = "text" /\ {"content", "at"} \subseteq df.cols) =>
           /\ raised' = ""
           /\ Len(df'.rows) = Len(df.rows)
           /\ \A i \in 1..Len(df.rows) :
                 /\ df'.rows[i].content = df.rows[i].content
                 /\ df'.rows[i].at = df.rows[i].at
                 /\ df'.rows[i].polarity = analyze_sentiment(df.rows[i].content).polarity
                 /\ df'.rows[i].sentiment =
                       classify(analyze_sentiment(df.rows[i].content).polarity,
                                pos_threshold', neg_threshold')]_vars

\* 250 reviews, processed in three batches: the reviews on both sides of the
\* second batch boundary carry the polarity of their own text
C14_Witness ==
    /\ pc = "text_done"
    /\ raised = ""
    /\ Len(df.rows) = 250
    /\ df.rows[200].content = NaN
    /\ df.rows[200].polarity = 0
    /\ df.rows[201].content = ScamText
    /\ df.rows[201].polarity = -80
    /\ df.rows[250].content = OkText(100)
    /\ df.rows[250].polarity = 100

\* the progress fractions sent so far never step back
ProgressNonDecreasing ==
    \A i \in 1..(Len(progress) - 1) : RLe(progress[i], progress[i + 1])

\* the run of the analysis section has ended with all fetched reviews processed
ProcessedRunEnded ==
    /\ pc \in {"stopped", "exported", "mailed"}
    /\ df.rows # <<>>
    /\ "sentiment" \in df.cols

\* C15: over one analysis request the progress fractions sent to the progress
\* bar are non-decreasing, and the bar reaches 1.0 once all reviews have been
\* processed
C15_ProgressCompletes ==
    /\ ProgressNonDecreasing
    /\ ProcessedRunEnded =>
          /\ progress # <<>>
          /\ progress[Len(progress)] = FromInt(1)

\* the colour is the one of the tier of a score given in percent
InTier(pct, colour) ==
    /\ RGe(pct, FromInt(75)) => colour = "#27ae60"
    /\ (RGe(pct, FromInt(40)) /\ RLt(pct, FromInt(75))) => colour = "#f39c12"
    /\ RLt(pct, FromInt(40)) => colour = "#e74c3c"

\* C16: a score is coloured by its percentage of the scale: green from 75,
\* amber from 40 to below 75, red below 40; app_rating_score and
\* playstore_score follow the same rule, and a store rating r on the scale of
\* 5 gets the colour of playstore_score = r * 20 on the scale of 100
C16_ScoreTiers ==
    pc = "coloured" =>
        /\ InTier(metrics.app_rating_score, ui.circles[4])
        /\ InTier(metrics.playstore_score, ui.circles[5])
        /\ pdf.raised = ""
        /\ pdf.colors = <<ui.circles[4], ui.circles[5]>>
        /\ cmp_ui.bars[2].color1 = ui.circles[4]
        /\ metrics.playstore_score = RMul(app1_details.score.val, FromInt(20))
        /\ cmp_ui.bars[1].color1 = ui.circles[5]

\* store rating 3.75, playstore_score 75: green on both scales; rating score
\* 40: amber
C16_Witness ==
    /\ pc = "coloured"
    /\ app1_details.score.val = Rat(375, 100)
    /\ metrics.playstore_score = FromInt(75)
    /\ ui.circles[5] = "#27ae60"
    /\ cmp_ui.bars[1].color1 = "#27ae60"
    /\ metrics.app_rating_score = FromInt(40)
    /\ ui.circles[4] = "#f39c12"
    /\ cmp_ui.bars[2].color1 = "#f39c12"

\* C17: the risk decision, the three percentages and app_rating_score do not
\* depend on the metadata: the same classified reviews and the same alert
\* threshold give the same values whatever the store rating and whether or
\* not the metadata is present
C17_MetadataIndependent ==
    pc = "calculated" =>
        \A other \in DetailsAll("com.a") \cup DetailsAll("com.b") :
            LET m == calculate_sentiment_metrics(filtered_df, other)
            IN  /\ m.positive_pct = metrics.positive_pct
                /\ m.negative_pct = metrics.negative_pct
                /\ m.neutral_pct = metrics.neutral_pct
                /\ m.app_rating_score = metrics.app_rating_score
                /\ m.counts = metrics.counts
                /\ UiRiskAlert(m.negative_pct, fraud_threshold) = ui.alert
                /\ send_analysis_email(other, m, fraud_threshold).alert = email.alert

\* 35 Negative reviews of 100 at threshold 30, without metadata: flagged
C17_Witness ==
    /\ pc = "calculated"
    /\ app_details.isNone
    /\ Len(filtered_df.rows) = 100
    /\ metrics.negative_pct = FromInt(35)
    /\ metrics.playstore_score = FromInt(0)
    /\ fraud_threshold = 30
    /\ ui.alert = "risk"
    /\ email.alert = "risk"

\* the details the comparison holds for app i
CmpDetailsOf(i) == IF i = 1 THEN app1_details ELSE app2_details

\* C18: in a comparison the metrics of each app are those that process_reviews
\* followed by calculate_sentiment_metrics computes for the reviews fetched
\* for that app with the same thresholds; the reviews and the metadata of the
\* other app have no part in them
C18_ComparisonIsPipeline ==
    CmpMetricsComputed =>
        \A i \in 1..2 :
            LET r == process_reviews(FrameOf(cmp_reviews[i]), pos_threshold, neg_threshold,
                                     FALSE)
                m == calculate_sentiment_metrics(r.df, CmpDetailsOf(i))
            IN  (cmp_reviews[i].rows # <<>> /\ r.raised = "") =>
                    /\ m.raised = ""
                    /\ CmpMetricsOf(i).total = m.total
                    /\ CmpMetricsOf(i).positive_pct = m.positive_pct
                    /\ CmpMetricsOf(i).negative_pct = m.negative_pct
                    /\ CmpMetricsOf(i).neutral_pct = m.neutral_pct
                    /\ CmpMetricsOf(i).app_rating_score = m.app_rating_score

\* app 1 with a Neutral review at the positive threshold and a Negative one,
\* app 2 with one Positive review: each has the metrics of its own reviews
C18_Witness ==
    /\ pc = "cmp_done"
    /\ cmp_ui.pdf
    /\ pos_threshold = 10
    /\ Len(cmp_reviews[1].rows) = 2
    /\ cmp_reviews[1].rows[1].content = OkText(10)
    /\ cmp_reviews[1].rows[2].content = ScamText
    /\ app1_metrics.total = 2
    /\ app1_metrics.neutral_pct = FromInt(50)
    /\ app1_metrics.negative_pct = FromInt(50)
    /\ app1_metrics.app_rating_score = FromInt(0)
    /\ Len(cmp_reviews[2].rows) = 1
    /\ app2_metrics.total = 1
    /\ app2_metrics.positive_pct = FromInt(100)
    /\ app2_metrics.app_rating_score = FromInt(100)

\* the pages received, one after the other
RECURSIVE Flatten(_)
Flatten(pages) ==
    IF pages = <<>> THEN <<>> ELSE Flatten(SubSeq(pages, 1, Len(pages) - 1)) \o pages[Len(pages)]

\* the last call of fetch_reviews went to the directory service
ReviewsFetched == fetch.fn = "fetch_reviews" /\ ~fetch.hit

\* C19: fetch_reviews never returns more than max_reviews records: each
\* directory call asks for min(200, remaining) records and passes the token
\* the call before it returned, the pages are concatenated in the order
\* received, and a page shorter than asked for or a missing token ends the
\* fetch with the records collected so far, without an error
C19_PaginationBounded ==
    ReviewsFetched =>
        LET max_reviews == fetch.args[2]
            remaining(k) == max_reviews - Len(Flatten(SubSeq(fetch.pages, 1, k - 1)))
        IN  /\ Len(fetch.reviews) <= max_reviews
            /\ \A k \in 1..Len(fetch.calls) :
                  /\ fetch.calls[k].count = Min(200, remaining(k))
                  /\ fetch.calls[k].count >= 1
                  /\ fetch.calls[k].continuation_token =
                        IF k = 1 THEN NoToken ELSE fetch.tokens[k - 1]
            /\ \A k \in 1..(Len(fetch.pages) - 1) :
                  /\ Len(fetch.pages[k]) = fetch.calls[k].count
                  /\ fetch.tokens[k] # NoToken
            /\ Len(fetch.calls) = Len(fetch.pages) => ~fetch.error
            /\ ~fetch.error => fetch.reviews = Flatten(fetch.pages)

\* a fetch of 500 reviews in calls for 200, 200 and 100, the third page one
\* review short: 499 reviews in the order received, and no error
C19_Witness ==
    /\ ReviewsFetched
    /\ fetch.args[2] = 500
    /\ ~fetch.error
    /\ Len(fetch.calls) = 3
    /\ Len(fetch.pages) = 3
    /\ fetch.calls[3].count = 100
    /\ fetch.calls[3].continuation_token = 2
    /\ Len(fetch.pages[3]) = 99
    /\ Len(fetch.reviews) = 499
    /\ fetch.reviews[201] = [page |-> 2, pos |-> 1]
    /\ fetch.reviews[499] = [page |-> 3, pos |-> 99]

\* C20: a failure of the directory service never leaves the fetch functions
\* as an exception and no call is made again: fetch_app_details returns None,
\* and fetch_reviews returns the empty list when a page request fails, the
\* pages it had received before being dropped
C20_FailureIsNoData ==
    /\ raised = ""
    /\ (fetch.fn = "fetch_app_details" /\ ~fetch.hit) =>
          /\ Len(fetch.calls) = 1
          /\ fetch.error => fetch.details = NoDetails
    /\ ReviewsFetched =>
          /\ \A j, k \in 1..Len(fetch.calls) :
                j # k => fetch.calls[j].continuation_token # fetch.calls[k].continuation_token
          /\ fetch.error =>
                /\ fetch.reviews = <<>>
                /\ Len(fetch.calls) = Len(fetch.pages) + 1
                /\ reviews_cache[fetch.args] = <<>>

\* the third page request of a fetch failed after 400 reviews had been
\* received: the fetch returned the empty list
C20_Witness ==
    /\ ReviewsFetched
    /\ fetch.error
    /\ Len(fetch.calls) = 3
    /\ Len(fetch.pages) = 2
    /\ Len(Flatten(fetch.pages)) = 400
    /\ fetch.reviews = <<>>
    /\ raised = ""

\* fetch_app_details failed and returned None
C20_WitnessDetails ==
    /\ fetch.fn = "fetch_app_details"
    /\ ~fetch.hit
    /\ fetch.error
    /\ fetch.details = NoDetails

\* the analysis section is running or has rendered its results
InAnalysis == pc \in {"selected", "processed", "filtered", "summarised", "exported", "mailed"}

\* C21: when no reviews are available for the selected app (nothing fetched,
\* or no review passes the filters) the analysis reports that there is nothing
\* to analyze and renders neither the risk alert nor the message of no
\* significant risk; after an empty fetch selected_app is None, and the
\* analysis section is not entered again until an app is selected anew
C21_NoJudgmentWithoutReviews ==
    /\ [](/\ (pc = "stopped" /\ df.rows = <<>>) =>
              /\ ui.error # ""
              /\ selected_app = None
          /\ (pc = "stopped" /\ df.rows # <<>> /\ "sentiment" \in df.cols) =>
              /\ filtered_df.rows = <<>>
              /\ ui.warning # ""
          /\ pc = "stopped" =>
              /\ ui.alert = ""
              /\ ui.circles = <<>>
              /\ metrics = NoMetrics
              /\ pdf = NoPdf
          /\ InAnalysis => selected_app # None)
    /\ [][(selected_app = None /\ selected_app' = None) => ~InAnalysis']_vars

\* a fetch that gave no review ended the run with the error message and
\* without a judgment, and the app is no longer selected
C21_Witness ==
    /\ pc = "stopped"
    /\ df.rows = <<>>
    /\ ui.error = "No reviews found"
    /\ ui.alert = ""
    /\ selected_app = None

\* reviews were fetched and classified and the filter kept none of them: the
\* warning, and no judgment
C21_WitnessFiltered ==
    /\ pc = "stopped"
    /\ Len(df.rows) = 2
    /\ filtered_df.rows = <<>>
    /\ ui.warning # ""
    /\ ui.alert = ""

\* C22: the counts mapping returned by calculate_sentiment_metrics has the
\* three labels Positive, Neutral and Negative as keys, with 0 for a label
\* that no review carries
C22_CountsAllLabels ==
    (pc = "calculated" /\ metrics.raised = "") =>
        /\ DOMAIN metrics.counts = Labels
        /\ \A l \in Labels :
              metrics.counts[l] =
                  Cardinality({i \in 1..Len(filtered_df.rows) : filtered_df.rows[i].sentiment = l})

\* positive_pct + neutral_pct * positive_pct / (positive_pct + negative_pct)
\* of the metrics, before the cap
UncappedScore(m) ==
    RAdd(m.positive_pct,
         RMul(m.neutral_pct, RDiv(m.positive_pct, RAdd(m.positive_pct, m.negative_pct))))

\* C23: app_rating_score depends only on the numbers P of Positive and N of
\* Negative reviews: with P + N > 0 it is 100 * P / (P + N) whatever the number
\* of Neutral reviews, the cap at 100 never binding, and for a non-empty
\* collection of Neutral reviews only it is 0, the unfavourable tier
C23_RatingIgnoresNeutral ==
    pc = "calculated" =>
        LET P == CountOf(filtered_df, "Positive")
            N == CountOf(filtered_df, "Negative")
        IN  /\ P + N > 0 =>
                  /\ metrics.app_rating_score = Rat(100 * P, P + N)
                  /\ RLe(UncappedScore(metrics), FromInt(100))
                  /\ metrics.app_rating_score = UncappedScore(metrics)
            /\ (P + N = 0 /\ Len(filtered_df.rows) > 0) =>
                  /\ metrics.app_rating_score = FromInt(0)
                  /\ get_score_color(metrics.app_rating_score, FromInt(100)) = "#e74c3c"

\* 3 Positive, 7 Negative and 10 Neutral reviews score 30, as 3 Positive and 7
\* Negative reviews alone
C23_Witness ==
    /\ pc = "calculated"
    /\ CountOf(filtered_df, "Positive") = 3
    /\ CountOf(filtered_df, "Negative") = 7
    /\ CountOf(filtered_df, "Neutral") = 10
    /\ metrics.positive_pct = FromInt(15)
    /\ metrics.app_rating_score = FromInt(30)

\* a collection of Neutral reviews only scores 0
C23_WitnessAllNeutral ==
    /\ pc = "calculated"
    /\ CountOf(filtered_df, "Neutral") = Len(filtered_df.rows)
    /\ Len(filtered_df.rows) = 5
    /\ metrics.neutral_pct = FromInt(100)
    /\ metrics.app_rating_score = FromInt(0)

\* the filtered view is what filter f keeps of the processed collection
ViewOf(f) == filtered_df.rows = FilterRows(df.rows, f)

\* C24: in the single-app analysis the metrics and the risk decision are
\* those of the filtered view, not of the processed collection: under a
\* sentiment filter without Negative the alert never fires whatever the
\* reviews contain, and under a filter of Negative alone that keeps a review
\* negative_pct is 100 and the alert fires at every position of the alert
\* slider
C24_DecisionOnFilteredView ==
    (pc \in {"summarised", "exported", "mailed"}) =>
        /\ metrics = calculate_sentiment_metrics(filtered_df, app_details)
        /\ ui.alert = UiRiskAlert(PctOf(filtered_df, "Negative"), fraud_threshold)
        /\ \A f \in FilterSamples :
              /\ (ViewOf(f) /\ "Negative" \notin f.sentiments) =>
                    /\ metrics.negative_pct = FromInt(0)
                    /\ ui.alert = "no_risk"
              /\ (ViewOf(f) /\ f.sentiments = {"Negative"}) =>
                    /\ metrics.negative_pct = FromInt(100)
                    /\ ui.alert = "risk"
                    /\ \A ft \in FraudRange :
                          UiRiskAlert(metrics.negative_pct, ft) = "risk"

\* of two reviews one is Negative, which is more than the alert threshold of
\* 30 percent; the filter keeps the other one only and the alert does not fire
C24_Witness ==
    /\ pc = "summarised"
    /\ Len(df.rows) = 2
    /\ CountOf(df, "Negative") = 1
    /\ fraud_threshold = 30
    /\ Len(filtered_df.rows) = 1
    /\ CountOf(filtered_df, "Negative") = 0
    /\ metrics.negative_pct = FromInt(0)
    /\ ui.alert = "no_risk"

\* one of two reviews is Negative and the filter keeps it alone: 100 percent
\* and the alert, at the highest threshold
C24_WitnessOnlyNegative ==
    /\ pc = "summarised"
    /\ Len(df.rows) = 2
    /\ CountOf(df, "Negative") = 1
    /\ fraud_threshold = 50
    /\ filtered_df.rows # <<>>
    /\ CountOf(filtered_df, "Negative") = Len(filtered_df.rows)
    /\ metrics.negative_pct = FromInt(100)
    /\ ui.alert = "risk"

\* C25: the no-data value a fetch function returned after a failed directory
\* call is stored in the cache like any result: the call that reached the
\* service leaves its result under its arguments, an entry of the cache never
\* changes, and a later call with the same arguments returns the entry without
\* a directory call, whatever the service would answer by then
C25_FailureIsCached ==
    [][/\ (fetch'.fn = "fetch_reviews" /\ ~fetch'.hit) =>
              /\ fetch'.args \in DOMAIN reviews_cache'
              /\ reviews_cache'[fetch'.args] = fetch'.reviews
              /\ fetch'.error => reviews_cache'[fetch'.args] = <<>>
       /\ (fetch'.fn = "fetch_app_details" /\ ~fetch'.hit) =>
              /\ fetch'.args \in DOMAIN details_cache'
              /\ details_cache'[fetch'.args] = fetch'.details
              /\ fetch'.error => details_cache'[fetch'.args] = NoDetails
       /\ \A key \in DOMAIN reviews_cache :
              /\ key \in DOMAIN reviews_cache'
              /\ reviews_cache'[key] = reviews_cache[key]
              /\ (fetch'.fn = "fetch_reviews" /\ fetch'.args = key) =>
                    /\ fetch'.hit
                    /\ fetch'.calls = <<>>
                    /\ fetch'.reviews = reviews_cache[key]
       /\ \A key \in DOMAIN details_cache :
              /\ key \in DOMAIN details_cache'
              /\ details_cache'[key] = details_cache[key]
              /\ (fetch'.fn = "fetch_app_details" /\ fetch'.args = key) =>
                    /\ fetch'.hit
                    /\ fetch'.calls = <<>>
                    /\ fetch'.details = details_cache[key]]_vars

\* fetch_app_details had failed for an app, and a later call for the same app
\* returned None from the cache without a directory call
C25_Witness ==
    /\ fetch.fn = "fetch_app_details"
    /\ fetch.hit
    /\ fetch.calls = <<>>
    /\ fetch.details = NoDetails
    /\ details_cache[fetch.args] = NoDetails

\* a fetch of 500 reviews returned the empty list from the cache
C25_WitnessReviews ==
    /\ fetch.fn = "fetch_reviews"
    /\ fetch.hit
    /\ fetch.args[2] = 500
    /\ fetch.calls = <<>>
    /\ fetch.reviews = <<>>

\* the four fields of the comparison slots
slots == <<app1_id, app2_id, app1_details, app2_details>>

\* the details of a slot are None, or those of the app in the slot
DetailsBelongTo(details, id) ==
    IF id = None THEN details = NoDetails
    ELSE details.isNone \/ details.appId = id

\* C26: after any sequence of Compare and Clear clicks app2_id is set only if
\* app1_id is set, two filled slots hold different apps, and the details of
\* each slot were fetched for the app of that slot (None when the fetch
\* failed)
C26_SlotsConsistent ==
    /\ app1_id \in AppIds \cup {None}
    /\ app2_id \in AppIds \cup {None}
    /\ app2_id # None => app1_id # None
    /\ (app1_id # None /\ app2_id # None) => app1_id # app2_id
    /\ DetailsBelongTo(app1_details, app1_id)
    /\ DetailsBelongTo(app2_details, app2_id)

\* both slots are filled, with the details of the first app and with None for
\* the second one, whose fetch failed
C26_Witness ==
    /\ app1_id = "com.b"
    /\ app2_id = "com.a"
    /\ ~app1_details.isNone
    /\ app1_details.appId = "com.b"
    /\ app2_details = NoDetails
    /\ cmp_ui.warning = "You can only compare two apps at a time"

\* the four fields of the slots are None
SlotsEmpty(s) == s = <<None, None, NoDetails, NoDetails>>

\* C27: with both slots filled a Compare click on any app leaves app1_id,
\* app2_id and both details as they are, as does a Compare click on the app
\* of slot 1 while slot 2 is empty; Clear sets the four fields to None
\* together and leaves selected_app alone
C27_SlotsFrame ==
    [][/\ (ClickCompare /\ app1_id # None /\ app2_id # None) =>
              /\ UNCHANGED slots
              /\ cmp_ui'.warning = "You can only compare two apps at a time"
       /\ (ClickCompare /\ app1_id # None /\ app2_id = None /\ app2_id' = None) =>
              /\ UNCHANGED slots
              /\ cmp_ui'.warning = "Cannot compare an app to itself"
       /\ (ClickCompare /\ app1_id # None /\ app2_id = None /\ app2_id' # None) =>
              /\ app2_id' # app1_id
              /\ UNCHANGED <<app1_id, app1_details>>
       /\ ClearCompared =>
              /\ SlotsEmpty(slots')
              /\ UNCHANGED selected_app
       /\ (app1_id # None /\ app2_id # None) =>
              \/ UNCHANGED slots
              \/ SlotsEmpty(slots') /\ UNCHANGED selected_app
       /\ (\/ app1_id # None /\ app1_id' = None
           \/ app2_id # None /\ app2_id' = None
           \/ app1_details # NoDetails /\ app1_details' = NoDetails
           \/ app2_details # NoDetails /\ app2_details' = NoDetails) =>
              SlotsEmpty(slots')]_vars

\* an app is selected for analysis, both slots are filled and a further
\* Compare click was refused
C27_Witness ==
    /\ selected_app = "com.a"
    /\ app1_id = "com.a"
    /\ app2_id = "com.b"
    /\ ~app1_details.isNone
    /\ ~app2_details.isNone
    /\ cmp_ui.warning = "You can only compare two apps at a time"

\* a Compare click on the app of slot 1 was refused while slot 2 is empty
C27_WitnessSameApp ==
    /\ app1_id = "com.a"
    /\ app2_id = None
    /\ app2_details = NoDetails
    /\ cmp_ui.warning = "Cannot compare an app to itself"

\* C28: Clear is available only where app1_id and app2_id are both set: from
\* a state with app1_id set and app2_id unset the only change the slots can
\* undergo is that slot 2 is filled with another app, so the slots do not
\* become empty again before a second app is selected
C28_ClearNeedsBothSlots ==
    /\ []((ENABLED ClearCompared) => (app1_id # None /\ app2_id # None))
    /\ [][/\ ClearCompared => (app1_id # None /\ app2_id # None)
          /\ (app1_id # None /\ app2_id = None) =>
                (\/ UNCHANGED slots
                 \/ /\ app2_id' \in AppIds \ {app1_id}
                    /\ DetailsBelongTo(app2_details', app2_id')
                    /\ UNCHANGED <<app1_id, app1_details>>)]_vars

\* slot 1 holds an app and slot 2 is empty, while an app is selected for
\* analysis: Clear is not offered
C28_Witness ==
    /\ app1_id = "com.b"
    /\ ~app1_details.isNone
    /\ app2_id = None
    /\ selected_app = "com.b"
    /\ cmp_ui.warning = ""
    /\ ~ENABLED ClearCompared

\* C29: fetch_reviews terminates for every max_reviews >= 0 and every
\* behaviour of the directory in which each call returns or raises: it makes
\* at most ceil(max_reviews / 200) directory calls, none when max_reviews is
\* 0, because every call that does not end the loop adds at least the
\* min(200, remaining) >= 1 records asked for
C29_FetchTerminates ==
    /\ [](pc \in {"paging", "paged"} =>
            LET max_reviews == fetch.args[2]
                going_on == IF pc = "paging" THEN Len(fetch.pages) ELSE Len(fetch.pages) - 1
            IN  /\ Len(fetch.calls) <= PagesFor(max_reviews)
                /\ 200 * Len(fetch.calls) < max_reviews + 200
                /\ max_reviews = 0 => fetch.calls = <<>>
                /\ \A k \in 1..going_on :
                      /\ fetch.calls[k].count >= 1
                      /\ Len(fetch.pages[k]) >= fetch.calls[k].count)
    /\ (pc = "paging" ~> pc = "paged")

\* a fetch of 500 reviews returned after three directory calls, the most it
\* may take
C29_Witness ==
    /\ pc = "paged"
    /\ fetch.args[2] = 500
    /\ Len(fetch.calls) = 3
    /\ ~fetch.error
    /\ Len(fetch.reviews) = 500

\* a fetch of no review returned without a directory call
C29_WitnessNone ==
    /\ pc = "paged"
    /\ fetch.args[2] = 0
    /\ fetch.calls = <<>>
    /\ fetch.reviews = <<>>

\* the label the rule gives when its tests are applied in the order written:
\* Positive first
LabelInOrder(row, pos, neg) ==
    /\ row.sentiment \in Labels
    /\ row.polarity > pos => row.sentiment = "Positive"
    /\ (row.polarity <= pos /\ row.polarity < neg) => row.sentiment = "Negative"
    /\ (row.polarity <= pos /\ row.polarity >= neg) => row.sentiment = "Neutral"

\* C30: the classifier does not validate the order of the thresholds: with
\* neg_threshold > pos_threshold a polarity p with pos_threshold < p <
\* neg_threshold passes both tests and is labelled Positive, the Positive test
\* coming first; every polarity gets one of the three labels
C30_InvertedThresholds ==
    pc = "labelled" =>
        /\ raised = ""
        /\ app1_metrics.raised = ""
        /\ Len(df.rows) = 1
        /\ Len(cmp_frames[1].rows) = 1
        /\ LabelInOrder(df.rows[1], pos_threshold, neg_threshold)
        /\ LabelInOrder(cmp_frames[1].rows[1], pos_threshold, neg_threshold)
        /\ (pos_threshold < df.rows[1].polarity /\ df.rows[1].polarity < neg_threshold) =>
              /\ df.rows[1].sentiment = "Positive"
              /\ cmp_frames[1].rows[1].sentiment = "Positive"

\* with pos_threshold -0.1 and neg_threshold 0.5 a polarity of 0 is above the
\* one and below the other, and both paths label it Positive
C30_Witness ==
    /\ pc = "labelled"
    /\ pos_threshold = -10
    /\ neg_threshold = 50
    /\ df.rows[1].polarity = 0
    /\ df.rows[1].sentiment = "Positive"
    /\ cmp_frames[1].rows[1].polarity = 0
    /\ cmp_frames[1].rows[1].sentiment = "Positive"

====
